---- MODULE Spec2Model ----
(***************************************************************************)
(* Factory-RD: the telemetry -> alert pipeline.                            *)
(*                                                                         *)
(*   SpecEval          the pure condition-tree evaluator (rule_engine.py)  *)
(*   Spec              the evaluate_rules task run by a pool of workers    *)
(*   SpecSerial        the evaluate_rules task run by a single worker      *)
(*   SpecIngest        process_telemetry in concurrent subscribers         *)
(*   SpecIngestSerial  process_telemetry in the one deployed subscriber    *)
(*   SpecIngestUser    the same next to users editing parameters           *)
(*   SpecRepo          device_repo and parameter_repo (tenant scoping)     *)
(*   SpecPipeline      the subscriber feeding one rule-engine worker       *)
(*   SpecGate          one worker, one rule with any bounded schedule      *)
(*   SpecPure          parse_topic and payload validation, bounded inputs  *)
(*   SpecNotify        send_notifications and the life of an alert row     *)
(*   SpecJobs          run_analytics_job and generate_report               *)
(*   SpecScope         one worker over any table of scoped rules           *)
(*   SpecTenants       subscriber and worker, two tenants, one device key  *)
(***************************************************************************)
EXTENDS Integers, Sequences, FiniteSets, TLC

VARIABLES
    condition_tree,    \* evaluate_conditions: the condition_tree argument
    eval_metrics,      \* evaluate_conditions: the metrics argument
    eval_result,       \* "pending" before the call, then "True" | "False" | "raised"
    clock,             \* datetime.utcnow(), in minutes
    queue,             \* the rule_engine queue: evaluate_rules messages
    enqueued,          \* number of evaluate_rules messages published so far
    faults,            \* number of exceptions raised and workers lost so far
    worker,            \* per worker: the task it runs and its position in it
    alerts,            \* table alerts, in insertion order (id = position)
    alert_origin,      \* history: the task and delivery that inserted each alert
    cooldowns,         \* table rule_cooldowns: a set of rows
    notify_queue,      \* the send_notifications messages published
    device_rows,       \* table devices, in insertion order (id = position)
    parameter_rows,    \* table device_parameters, in insertion order (id = position)
    factory_cache,     \* redis keys factory:slug:<slug>: slug -> factory id
    device_cache,      \* redis keys device:<factory_id>:<device_key>: the cached Device
    points,            \* the points written to the time-series store
    sub,               \* per subscriber process: its position in process_telemetry
    received,          \* number of MQTT messages handed to process_telemetry
    repo_call,         \* the last repository call and what it returned
    rule_rows,         \* table rules
    pure_call,         \* a call of a pure function: its name and arguments
    pure_result,       \* what that call returned or raised
    notifier,          \* the notifications worker: its position in send_notifications
    attempts,          \* history: the send_email / send_whatsapp calls made
    notify_faults,     \* number of exceptions raised in the notification path so far
    job_rows,          \* tables analytics_jobs and reports: one row of each
    job_worker,        \* per job kind: the worker running its task
    job_history,       \* per job kind: the statuses its row has had, in order
    job_faults         \* number of exceptions raised in job tasks so far

evalVars == <<condition_tree, eval_metrics, eval_result>>
engineVars == <<clock, queue, enqueued, faults, worker, alerts, alert_origin,
                cooldowns, notify_queue>>

storeVars == <<device_rows, parameter_rows>>
ingestVars == <<factory_cache, device_cache, points, sub, received>>
repoVars == <<repo_call>>
pureVars == <<pure_call, pure_result>>
ruleVars == <<rule_rows>>
notifyVars == <<notifier, attempts, notify_faults>>
jobVars == <<job_rows, job_worker, job_history, job_faults>>

\* What the steps of one subsystem leave alone: the other subsystems.
notEval == <<engineVars, storeVars, ingestVars, repoVars, pureVars, ruleVars,
    notifyVars, jobVars>>
notEngine == <<evalVars, storeVars, ingestVars, repoVars, pureVars, ruleVars,
    notifyVars, jobVars>>

(***************************************************************************)
(* JSON values.  A number n is [t |-> "num", n |-> n]; a string that is    *)
(* not the text of a number is [t |-> "str"]; a float NaN is [t |-> "nan"].*)
(* A dict is a function whose DOMAIN is its set of keys.                   *)
(***************************************************************************)
JNum(n) == [t |-> "num", n |-> n]
JStr == [t |-> "str", n |-> 0]
JNaN == [t |-> "nan", n |-> 0]
JNull == [t |-> "null", n |-> 0]
JList(S) == [t |-> "list", n |-> 0, items |-> S]
JsonNull == "<null>"
IsObject(j) == "t" \notin DOMAIN j
EmptyDict == [k \in {} |-> 0]

\* float(x) raises ValueError for a string that is not the text of a number.
float_raises(x) == x.t = "str"
float(x) == [nan |-> x.t = "nan", n |-> x.n]

\* str.upper() on the operator names that occur.
upper(s) ==
    CASE s = "and" -> "AND"
      [] s = "or" -> "OR"
      [] s = "xor" -> "XOR"
      [] OTHER -> s

OPERATORS == {"gt", "lt", "gte", "lte", "eq", "neq"}

\* operator_func with "gte" and "lte" written as the strict comparisons.
operator_func_strict(name, a, b) ==
    CASE name = "gt" -> ~a.nan /\ ~b.nan /\ a.n > b.n
      [] name = "lt" -> ~a.nan /\ ~b.nan /\ a.n < b.n
      [] name = "gte" -> ~a.nan /\ ~b.nan /\ a.n > b.n
      [] name = "lte" -> ~a.nan /\ ~b.nan /\ a.n < b.n
      [] name = "eq" -> ~a.nan /\ ~b.nan /\ a.n = b.n
      [] name = "neq" -> a.nan \/ b.nan \/ a.n # b.n

\* OPERATORS[name](a, b) on two floats: IEEE 754 comparisons, NaN unordered.
operator_func(name, a, b) ==
    CASE name = "gt" -> ~a.nan /\ ~b.nan /\ a.n > b.n
      [] name = "lt" -> ~a.nan /\ ~b.nan /\ a.n < b.n
      [] name = "gte" -> ~a.nan /\ ~b.nan /\ a.n >= b.n
      [] name = "lte" -> ~a.nan /\ ~b.nan /\ a.n <= b.n
      [] name = "eq" -> ~a.nan /\ ~b.nan /\ a.n = b.n
      [] name = "neq" -> a.nan \/ b.nan \/ a.n # b.n

\* The leaf branch of the loop body: "T" | "F" appended to results, or "X"
\* when the statement raises (KeyError on cond["value"], ValueError in float).
leaf_outcome(cond, metrics) ==
    IF "parameter" \notin DOMAIN cond THEN "F"
    ELSE IF cond.parameter \notin DOMAIN metrics THEN "F"
    ELSE IF "operator" \notin DOMAIN cond THEN "F"
    ELSE IF cond.operator \notin OPERATORS THEN "F"
    ELSE IF float_raises(metrics[cond.parameter]) THEN "X"
    ELSE IF "value" \notin DOMAIN cond THEN "X"
    ELSE IF float_raises(cond.value) THEN "X"
    ELSE IF operator_func(cond.operator, float(metrics[cond.parameter]), float(cond.value))
         THEN "T" ELSE "F"

RECURSIVE try_body(_, _)
RECURSIVE evaluate_conditions(_, _)

\* The try block of evaluate_conditions: "T" | "F" returned, "X" an exception.
try_body(tree, metrics) ==
    LET raw == IF "operator" \in DOMAIN tree THEN tree.operator ELSE "AND"
        conditions == IF "conditions" \in DOMAIN tree THEN tree.conditions ELSE <<>>
        results == [i \in 1..Len(conditions) |->
                       IF "conditions" \in DOMAIN conditions[i]
                       THEN (IF evaluate_conditions(conditions[i], metrics) THEN "T" ELSE "F")
                       ELSE leaf_outcome(conditions[i], metrics)]
    IN  IF raw = JsonNull THEN "X"
        ELSE IF conditions = <<>> THEN "F"
        ELSE IF \E i \in 1..Len(conditions) : results[i] = "X" THEN "X"
        ELSE IF upper(raw) = "AND"
             THEN (IF \A i \in 1..Len(conditions) : results[i] = "T" THEN "T" ELSE "F")
        ELSE IF upper(raw) = "OR"
             THEN (IF \E i \in 1..Len(conditions) : results[i] = "T" THEN "T" ELSE "F")
        ELSE "F"

\* except Exception: return False
evaluate_conditions(tree, metrics) == try_body(tree, metrics) = "T"

\* What a caller of evaluate_conditions observes.
call_evaluate_conditions(tree, metrics) ==
    IF evaluate_conditions(tree, metrics) THEN "True" ELSE "False"

(***************************************************************************)
(* SpecEval: evaluate_conditions applied to bounded inputs.                *)
(***************************************************************************)
MaxValue == 2
MaxDepth == 2
MaxChildren == 3

Params == {"temp", "pressure"}
Values == 0..MaxValue

\* Every leaf shape the evaluator can meet: the six operators and an unknown
\* one, numeric, textual and NaN thresholds, and a missing key.
FullLeaves ==
    {[parameter |-> p, operator |-> o, value |-> v] :
        p \in Params, o \in OPERATORS \cup {"unknown"},
        v \in {JNum(n) : n \in Values} \cup {JStr, JNaN}}
    \cup {[parameter |-> p, operator |-> o] : p \in Params, o \in OPERATORS}
    \cup {[parameter |-> p, value |-> JNum(0)] : p \in Params}
    \cup {[operator |-> "gt", value |-> JNum(0)]}

NodeOps == {"AND", "OR", "and", "or", "xor", JsonNull}

\* One internal node over one leaf, and the degenerate dicts.
FlatTrees ==
    {[operator |-> o, conditions |-> <<l>>] : o \in NodeOps, l \in FullLeaves}
    \cup {[conditions |-> <<l>>] : l \in FullLeaves}
    \cup {EmptyDict, [operator |-> "AND"], [operator |-> "OR", conditions |-> <<>>]}

MetricMaps ==
    UNION {[S -> {JNum(n) : n \in Values} \cup {JStr, JNaN}] : S \in SUBSET Params}

\* Three leaves for the nested trees: with SmallMetricMaps each of them is
\* true, false and (the third) raising in some map.
SmallLeaves ==
    {[parameter |-> "temp", operator |-> "gt", value |-> JNum(1)],
     [parameter |-> "pressure", operator |-> "lt", value |-> JNum(1)],
     [parameter |-> "temp", operator |-> "eq", value |-> JStr]}

SmallMetricMaps ==
    {[k \in {"temp", "pressure"} |-> IF k = "temp" THEN JNum(MaxValue) ELSE JNum(0)],
     [k \in {"temp"} |-> JNum(MaxValue)],
     [k \in {"temp", "pressure"} |-> IF k = "temp" THEN JNum(0) ELSE JNum(MaxValue)],
     [k \in {"pressure"} |-> JNum(0)]}

RECURSIVE Nodes(_)
\* AND/OR nodes nested to depth d.
Nodes(d) ==
    IF d = 0 THEN {}
    ELSE LET inner == SmallLeaves \cup Nodes(d - 1)
             pairs == IF d >= 2 THEN {<<a, b>> : a \in Nodes(1), b \in Nodes(1)} ELSE {}
             children == {<<>>} \cup {<<a>> : a \in inner}
                         \cup {<<a, b>> : a \in SmallLeaves, b \in inner}
                         \cup {<<b, a>> : a \in SmallLeaves, b \in inner}
                         \cup pairs
         IN  {[operator |-> o, conditions |-> c] : o \in {"AND", "OR"}, c \in children}

WideTrees ==
    {[operator |-> o, conditions |-> c] :
        o \in {"AND", "OR"}, c \in [1..MaxChildren -> SmallLeaves]}

InitEval ==
    /\ eval_result = "pending"
    /\ \/ condition_tree \in FlatTrees /\ eval_metrics \in MetricMaps
       \/ condition_tree \in Nodes(MaxDepth) \cup WideTrees /\ eval_metrics \in SmallMetricMaps

Evaluate ==
    /\ eval_result = "pending"
    /\ eval_result' = call_evaluate_conditions(condition_tree, eval_metrics)
    /\ UNCHANGED <<condition_tree, eval_metrics>>
    /\ UNCHANGED notEval

NextEval == Evaluate

(***************************************************************************)
(* Spec: the evaluate_rules task (rule_engine.py) run by Celery workers.   *)
(***************************************************************************)
MaxClock == 2
MaxTasks == 2
MaxSerialTasks == 1
MaxFaults == 1
NumWorkers == 2
Workers == 1..NumWorkers
Devices == {1}

\* @celery_app.task(name="evaluate_rules", max_retries=3, autoretry_for=(Exception,))
max_retries == 3

\* Table rules as seeded.  Rule 1 is global with a cooldown; rule 2 is linked
\* to device 1, has no cooldown and a time_window schedule on every day.
SeedRules ==
    {[id |-> 1, factory_id |-> 1, scope |-> "global", devices |-> {},
      is_active |-> TRUE, cooldown_minutes |-> 2, severity |-> "high",
      conditions |-> [operator |-> "AND", conditions |->
          <<[parameter |-> "temp", operator |-> "gt", value |-> JNum(1)]>>],
      schedule_type |-> "always", schedule_config |-> JNull,
      notification_channels |-> [email |-> TRUE, whatsapp |-> FALSE]],
     [id |-> 2, factory_id |-> 1, scope |-> "device", devices |-> {1},
      is_active |-> TRUE, cooldown_minutes |-> 0, severity |-> "low",
      conditions |-> [operator |-> "OR", conditions |->
          <<[parameter |-> "pressure", operator |-> "lt", value |-> JNum(1)]>>],
      schedule_type |-> "time_window",
      schedule_config |-> [start_time |-> JNum(0), end_time |-> JNum(2)],
      notification_channels |-> [email |-> FALSE, whatsapp |-> TRUE]]}

RuleTable == rule_rows
RulesSeeded == rule_rows = SeedRules

RuleRow(id) == CHOOSE r \in RuleTable : r.id = id

\* The metrics a task carries: matching both rules, or rule 2 only.
TaskMetrics ==
    {[k \in {"temp", "pressure"} |-> IF k = "temp" THEN JNum(MaxValue) ELSE JNum(0)],
     [k \in {"temp", "pressure"} |-> JNum(0)]}

NoTask == [id |-> 0, factory_id |-> 0, device_id |-> 0, metrics |-> EmptyDict,
           timestamp |-> 0, retries |-> 0, deliveries |-> 0]
IdleWorker == [pc |-> "idle", task |-> NoTask, rules |-> <<>>, i |-> 0,
               alert_id |-> 0, errors |-> {}]

RECURSIVE SortedIds(_)
SortedIds(S) ==
    IF S = {} THEN <<>>
    ELSE LET m == CHOOSE x \in S : \A y \in S : x <= y
         IN  <<m>> \o SortedIds(S \ {m})

\* get_active_for_device without its WHERE clause: every rule of the table.
get_active_for_device_unfiltered(factory_id, device_id) ==
    SortedIds({r.id : r \in RuleTable})

\* rule_repo.get_active_for_device: the ids of the rows selected.
get_active_for_device(factory_id, device_id) ==
    SortedIds({r.id : r \in {x \in RuleTable :
        /\ x.factory_id = factory_id
        /\ x.is_active
        /\ (x.scope = "global" \/ device_id \in x.devices)}})

\* A datetime is a count of time units; a day has DayLength of them, and day
\* 0 is a Monday.
DayLength == MaxClock + 1
time(now) == now % DayLength
date(now) == now \div DayLength
isoweekday(now) == (date(now) % 7) + 1

\* config[key] raises (config is None, the key is absent) or the parser of the
\* value does (strptime, fromisoformat); a number n stands for the well-formed
\* text of the time of day or of the date n.
value_raises(config, key) ==
    \/ ~IsObject(config)
    \/ key \notin DOMAIN config
    \/ config[key].t # "num"

\* is_rule_scheduled(rule, now)
\* (is_rule_scheduled_any_day is the gate without the day-of-week check.)
is_rule_scheduled_any_day(rule, now) ==
    LET config == rule.schedule_config
    IN  IF rule.schedule_type = "always" THEN TRUE
        ELSE IF rule.schedule_type = "time_window"
        THEN IF \/ value_raises(config, "start_time")
                \/ value_raises(config, "end_time")
                \/ ("days" \in DOMAIN config /\ config["days"].t # "list")
             THEN TRUE
             ELSE /\ config["start_time"].n <= time(now)
                  /\ time(now) <= config["end_time"].n
        ELSE IF rule.schedule_type = "date_range"
        THEN IF value_raises(config, "start_date") \/ value_raises(config, "end_date")
             THEN TRUE
             ELSE /\ config["start_date"].n <= date(now)
                  /\ date(now) <= config["end_date"].n
        ELSE TRUE
is_rule_scheduled(rule, now) ==
    LET config == rule.schedule_config
    IN  IF rule.schedule_type = "always" THEN TRUE
        ELSE IF rule.schedule_type = "time_window"
        THEN IF \/ value_raises(config, "start_time")
                \/ value_raises(config, "end_time")
                \/ ("days" \in DOMAIN config /\ config["days"].t # "list")
             THEN TRUE
             ELSE LET day_ok == \/ "days" \notin DOMAIN config
                                \/ isoweekday(now) \in config["days"].items
                      time_ok == /\ config["start_time"].n <= time(now)
                                 /\ time(now) <= config["end_time"].n
                  IN  day_ok /\ time_ok
        ELSE IF rule.schedule_type = "date_range"
        THEN IF value_raises(config, "start_date") \/ value_raises(config, "end_date")
             THEN TRUE
             ELSE /\ config["start_date"].n <= date(now)
                  /\ date(now) <= config["end_date"].n
        ELSE TRUE

\* alert_repo.get_cooldown: the rows with that primary key.
get_cooldown(rule_id, device_id) ==
    {c \in cooldowns : c.rule_id = rule_id /\ c.device_id = device_id}

\* is_in_cooldown(db, rule_id, device_id, cooldown_minutes) at wall-clock time clock.
\* (is_in_cooldown_always_reads is the check without the cooldown_minutes == 0 case.)
is_in_cooldown_always_reads(rule_id, device_id, cooldown_minutes) ==
    IF get_cooldown(rule_id, device_id) = {} THEN FALSE
    ELSE \E c \in get_cooldown(rule_id, device_id) :
             clock - c.last_triggered < cooldown_minutes
is_in_cooldown(rule_id, device_id, cooldown_minutes) ==
    IF cooldown_minutes = 0 THEN FALSE
    ELSE IF get_cooldown(rule_id, device_id) = {} THEN FALSE
    ELSE \E c \in get_cooldown(rule_id, device_id) :
             clock - c.last_triggered < cooldown_minutes

\* alert_repo.upsert_cooldown: the table after the upsert.
upsert_cooldown(rule_id, device_id, last_triggered) ==
    (cooldowns \ get_cooldown(rule_id, device_id))
        \cup {[rule_id |-> rule_id, device_id |-> device_id,
               last_triggered |-> last_triggered]}

\* alert_repo.create_alert: the row inserted.
create_alert(factory_id, rule_id, device_id, triggered_at, severity, snapshot) ==
    [id |-> Len(alerts) + 1, factory_id |-> factory_id, rule_id |-> rule_id,
     device_id |-> device_id, triggered_at |-> triggered_at, severity |-> severity,
     resolved_at |-> JNull, telemetry_snapshot |-> snapshot,
     notification_sent |-> FALSE]

CurrentRule(w) == RuleRow(worker[w].rules[worker[w].i])

\* "continue" / the end of the for loop: the worker record at the next rule.
NextRule(rec) ==
    IF rec.i < Len(rec.rules)
    THEN [rec EXCEPT !.pc = "gate", !.i = rec.i + 1, !.alert_id = 0]
    ELSE [rec EXCEPT !.pc = "done", !.alert_id = 0]

EngineIdleAt(now) ==
    /\ clock = now
    /\ queue = <<>>
    /\ enqueued = 0
    /\ faults = 0
    /\ worker = [w \in Workers |-> IdleWorker]
    /\ alerts = <<>>
    /\ alert_origin = <<>>
    /\ cooldowns = {}
    /\ notify_queue = <<>>

EngineIdle == EngineIdleAt(0)

\* Time passes.
Tick ==
    /\ clock < MaxClock
    /\ clock' = clock + 1
    /\ UNCHANGED <<queue, enqueued, faults, worker, alerts, alert_origin, cooldowns,
                   notify_queue>>
    /\ UNCHANGED notEngine

\* evaluate_rules_task.delay(factory_id, device_id, metrics, timestamp)
EnqueueFor(f, d, m, ts) ==
    /\ enqueued < MaxTasks
    /\ enqueued' = enqueued + 1
    /\ queue' = Append(queue, [id |-> enqueued + 1, factory_id |-> f, device_id |-> d,
                               metrics |-> m, timestamp |-> ts, retries |-> 0,
                               deliveries |-> 0])
    /\ UNCHANGED <<clock, faults, worker, alerts, alert_origin, cooldowns, notify_queue>>
    /\ UNCHANGED notEngine

\* The same for a device of tenant 1.
Enqueue(d, m, ts) == EnqueueFor(1, d, m, ts)

\* A worker receives the message at the head of the queue (acks_late: no ack
\* yet) and runs the task up to the for loop:
\* rules = get_active_rules_for_device_sync(...); ts = datetime.fromisoformat(timestamp)
Take(w) ==
    /\ worker[w].pc = "idle"
    /\ \A v \in Workers : v < w => worker[v].pc # "idle"
    /\ queue # <<>>
    /\ LET task == [Head(queue) EXCEPT !.deliveries = @ + 1]
           rules == get_active_for_device(task.factory_id, task.device_id)
       IN  worker' = [worker EXCEPT ![w] =
               NextRule([IdleWorker EXCEPT !.task = task, !.rules = rules])]
    /\ queue' = Tail(queue)
    /\ UNCHANGED <<clock, enqueued, faults, alerts, alert_origin, cooldowns, notify_queue>>
    /\ UNCHANGED notEngine

\* The same, but loading the rules raises: the outer "except Exception" logs
\* rule.evaluation_failed and re-raises, so the task fails before the for loop.
TakeFails(w) ==
    /\ worker[w].pc = "idle"
    /\ \A v \in Workers : v < w => worker[v].pc # "idle"
    /\ queue # <<>>
    /\ faults < MaxFaults
    /\ faults' = faults + 1
    /\ worker' = [worker EXCEPT ![w] =
           [IdleWorker EXCEPT !.pc = "failed",
                              !.task = [Head(queue) EXCEPT !.deliveries = @ + 1]]]
    /\ queue' = Tail(queue)
    /\ UNCHANGED <<clock, enqueued, alerts, alert_origin, cooldowns, notify_queue>>
    /\ UNCHANGED notEngine

\* autoretry_for=(Exception,): a failed task is published again, up to
\* max_retries times, and its message is acknowledged.
Retry(w) ==
    /\ worker[w].pc = "failed"
    /\ queue' = IF worker[w].task.retries < max_retries
                THEN Append(queue, [worker[w].task EXCEPT !.retries = @ + 1])
                ELSE queue
    /\ worker' = [worker EXCEPT ![w] = IdleWorker]
    /\ UNCHANGED <<clock, enqueued, faults, alerts, alert_origin, cooldowns, notify_queue>>
    /\ UNCHANGED notEngine

\* The schedule gate, the cooldown gate (one read of rule_cooldowns and of the
\* clock) and the condition gate of the current rule.
Gate(w) ==
    /\ worker[w].pc = "gate"
    /\ LET rule == CurrentRule(w)
           task == worker[w].task
       IN  worker' = [worker EXCEPT ![w] =
               IF ~is_rule_scheduled(rule, task.timestamp) THEN NextRule(worker[w])
               ELSE IF is_in_cooldown(rule.id, task.device_id, rule.cooldown_minutes)
                    THEN NextRule(worker[w])
               ELSE IF evaluate_conditions(rule.conditions, task.metrics)
                    THEN [worker[w] EXCEPT !.pc = "create"]
               ELSE NextRule(worker[w])]
    /\ UNCHANGED <<clock, queue, enqueued, faults, alerts, alert_origin, cooldowns,
                   notify_queue>>
    /\ UNCHANGED notEngine

\* alert_id = create_alert_sync(...): its own session and commit.
CreateAlert(w) ==
    /\ worker[w].pc = "create"
    /\ LET rule == CurrentRule(w)
           task == worker[w].task
           alert == create_alert(task.factory_id, rule.id, task.device_id,
                                 task.timestamp, rule.severity, task.metrics)
       IN  /\ alerts' = Append(alerts, alert)
           /\ alert_origin' = Append(alert_origin,
                                     [task |-> task.id, delivery |-> task.deliveries])
           /\ worker' = [worker EXCEPT ![w].pc = "upsert", ![w].alert_id = alert.id]
    /\ UNCHANGED <<clock, queue, enqueued, faults, cooldowns, notify_queue>>
    /\ UNCHANGED notEngine

\* upsert_cooldown_sync(rule["id"], device_id, ts): its own session and commit.
UpsertCooldown(w) ==
    /\ worker[w].pc = "upsert"
    /\ cooldowns' = upsert_cooldown(CurrentRule(w).id, worker[w].task.device_id,
                                    worker[w].task.timestamp)
    /\ worker' = [worker EXCEPT ![w].pc = "notify"]
    /\ UNCHANGED <<clock, queue, enqueued, faults, alerts, alert_origin, notify_queue>>
    /\ UNCHANGED notEngine

\* send_notifications_task.delay(alert_id=alert_id, channels=...)
EnqueueNotification(w) ==
    /\ worker[w].pc = "notify"
    /\ notify_queue' = Append(notify_queue,
           [alert_id |-> worker[w].alert_id,
            channels |-> CurrentRule(w).notification_channels])
    /\ worker' = [worker EXCEPT ![w] = NextRule(worker[w])]
    /\ UNCHANGED <<clock, queue, enqueued, faults, alerts, alert_origin, cooldowns>>
    /\ UNCHANGED notEngine

\* RuleError without the inner try: the exception reaches the outer handler
\* and the task fails.
RuleErrorPropagates(w) ==
    /\ worker[w].pc \in {"gate", "create", "upsert", "notify"}
    /\ faults < MaxFaults
    /\ faults' = faults + 1
    /\ worker' = [worker EXCEPT ![w].pc = "failed"]
    /\ UNCHANGED <<clock, queue, enqueued, alerts, alert_origin, cooldowns,
                   notify_queue>>
    /\ UNCHANGED notEngine

\* A statement of the current rule's iteration raises: the inner
\* "except Exception" logs rule.evaluation_error and continues with the next rule.
RuleError(w) ==
    /\ worker[w].pc \in {"gate", "create", "upsert", "notify"}
    /\ faults < MaxFaults
    /\ faults' = faults + 1
    /\ worker' = [worker EXCEPT ![w] =
           NextRule([worker[w] EXCEPT !.errors = @ \cup {CurrentRule(w).id}])]
    /\ UNCHANGED <<clock, queue, enqueued, alerts, alert_origin, cooldowns,
                   notify_queue>>
    /\ UNCHANGED notEngine

\* The task returned: the message is acknowledged (task_acks_late).
Ack(w) ==
    /\ worker[w].pc = "done"
    /\ worker' = [worker EXCEPT ![w] = IdleWorker]
    /\ UNCHANGED <<clock, queue, enqueued, faults, alerts, alert_origin, cooldowns,
                   notify_queue>>
    /\ UNCHANGED notEngine

\* The worker process is lost while it holds an unacknowledged message:
\* task_reject_on_worker_lost puts the message back on the queue.
WorkerLost(w) ==
    /\ worker[w].pc # "idle"
    /\ faults < MaxFaults
    /\ faults' = faults + 1
    /\ queue' = Append(queue, worker[w].task)
    /\ worker' = [worker EXCEPT ![w] = IdleWorker]
    /\ UNCHANGED <<clock, enqueued, alerts, alert_origin, cooldowns, notify_queue>>
    /\ UNCHANGED notEngine

(***************************************************************************)
(* SpecNotify: the send_notifications task (notifications.py) and the      *)
(* alert row it marks, next to users resolving alerts (alert_repo.py).     *)
(***************************************************************************)
MaxNotifications == 1
MaxNotifyFaults == 1

\* @celery_app.task(name="send_notifications", max_retries=3, autoretry_for=(Exception,))
notify_max_retries == 3

\* Table users.  Users 1 and 2 are active users of tenant 1, user 2 without a
\* whatsapp_number; user 3 of tenant 1 is inactive; user 4 belongs to tenant 2.
UserTable ==
    {[id |-> 1, factory_id |-> 1, is_active |-> TRUE, email |-> TRUE,
      whatsapp_number |-> TRUE],
     [id |-> 2, factory_id |-> 1, is_active |-> TRUE, email |-> TRUE,
      whatsapp_number |-> FALSE],
     [id |-> 3, factory_id |-> 1, is_active |-> FALSE, email |-> TRUE,
      whatsapp_number |-> TRUE],
     [id |-> 4, factory_id |-> 2, is_active |-> TRUE, email |-> TRUE,
      whatsapp_number |-> TRUE]}

UserRow(id) == CHOOSE u \in UserTable : u.id = id

\* The channels argument: rules.notification_channels, a JSON column that is
\* a dict of flags or NULL.
ChannelInputs ==
    {[email |-> e, whatsapp |-> w] : e \in BOOLEAN, w \in BOOLEAN} \cup {JNull}

\* channels.get(key): None has no attribute "get".
channels_get_raises(channels) == ~IsObject(channels)
channels_get(channels, key) ==
    IF key \in DOMAIN channels THEN channels[key] ELSE FALSE

\* Alert ids a message may carry: the rows of the table and one id without row.
NotifyAlertIds == 1..(Len(alerts) + 1)

NoNotification == [alert_id |-> 0, channels |-> JNull]
IdleNotifier == [pc |-> "idle", task |-> NoNotification, taken |-> 0, retries |-> 0,
                 factory_id |-> 0, users |-> <<>>, i |-> 0, outcome |-> "none"]

NotifyIdle ==
    /\ notifier = IdleNotifier
    /\ attempts = {}
    /\ notify_faults = 0

\* The alerts table when the notification path starts: one alert of each tenant.
SeedAlerts ==
    <<[id |-> 1, factory_id |-> 1, rule_id |-> 1, device_id |-> 1, triggered_at |-> 0,
       severity |-> "high", resolved_at |-> JNull,
       telemetry_snapshot |-> EmptyDict, notification_sent |-> FALSE],
      [id |-> 2, factory_id |-> 2, rule_id |-> 3, device_id |-> 2, triggered_at |-> 0,
       severity |-> "low", resolved_at |-> JNull,
       telemetry_snapshot |-> EmptyDict, notification_sent |-> FALSE]>>

\* get_factory_users_sync: the active users of the factory, in id order.
get_factory_users(factory_id) ==
    SortedIds({u.id : u \in {x \in UserTable :
                                 x.factory_id = factory_id /\ x.is_active}})

\* mark_notification_sent_sync: UPDATE alerts SET notification_sent = true WHERE id = :id
mark_notification_sent(alert_id) ==
    [k \in DOMAIN alerts |->
        IF alerts[k].id = alert_id
        THEN [alerts[k] EXCEPT !.notification_sent = TRUE]
        ELSE alerts[k]]

\* alert_repo.resolve: the alert of that factory gets resolved_at = utcnow().
resolve(factory_id, alert_id) ==
    [k \in DOMAIN alerts |->
        IF alerts[k].id = alert_id /\ alerts[k].factory_id = factory_id
        THEN [alerts[k] EXCEPT !.resolved_at = JNum(clock)]
        ELSE alerts[k]]

notifierFrame == <<clock, queue, enqueued, faults, worker, alert_origin, cooldowns>>
notNotify == <<evalVars, storeVars, ingestVars, repoVars, pureVars, ruleVars, jobVars>>

\* send_notifications_task.delay(alert_id=..., channels=...)
Publish(alert_id, channels) ==
    /\ Len(notify_queue) < MaxNotifications
    /\ notify_queue' = Append(notify_queue, [alert_id |-> alert_id, channels |-> channels])
    /\ UNCHANGED <<alerts, notifier, attempts, notify_faults>>
    /\ UNCHANGED notifierFrame
    /\ UNCHANGED notNotify

\* The worker receives the next message of the notifications queue.
NotifyTake ==
    /\ notifier.pc = "idle"
    /\ notifier.taken < Len(notify_queue)
    /\ notifier' = [IdleNotifier EXCEPT !.pc = "load",
                       !.task = notify_queue[notifier.taken + 1],
                       !.taken = notifier.taken + 1]
    /\ UNCHANGED <<alerts, notify_queue, attempts, notify_faults>>
    /\ UNCHANGED notifierFrame
    /\ UNCHANGED notNotify

\* alert = get_alert_with_relations_sync(alert_id); if not alert: return
LoadAlert ==
    /\ notifier.pc = "load"
    /\ LET found == {k \in DOMAIN alerts : alerts[k].id = notifier.task.alert_id}
       IN  notifier' =
               IF found = {}
               THEN [notifier EXCEPT !.pc = "done", !.outcome = "alert_not_found"]
               ELSE [notifier EXCEPT !.pc = "users",
                        !.factory_id = alerts[CHOOSE k \in found : TRUE].factory_id]
    /\ UNCHANGED <<alerts, notify_queue, attempts, notify_faults>>
    /\ UNCHANGED notifierFrame
    /\ UNCHANGED notNotify

\* users = get_factory_users_sync(alert["factory_id"]); for user in users:
GetUsers ==
    /\ notifier.pc = "users"
    /\ LET users == get_factory_users(notifier.factory_id)
       IN  notifier' = [notifier EXCEPT !.users = users, !.i = 1,
                           !.pc = IF users = <<>> THEN "mark" ELSE "email"]
    /\ UNCHANGED <<alerts, notify_queue, attempts, notify_faults>>
    /\ UNCHANGED notifierFrame
    /\ UNCHANGED notNotify

\* A send_email / send_whatsapp call: whatever goes wrong inside is logged.
Attempt(channel, ok) ==
    [alert_id |-> notifier.task.alert_id, user |-> notifier.users[notifier.i],
     channel |-> channel, ok |-> ok]

\* if channels.get("email") and user["email"]: try: send_email(...) except: log
EmailStep ==
    /\ notifier.pc = "email"
    /\ LET channels == notifier.task.channels
           user == UserRow(notifier.users[notifier.i])
       IN  IF channels_get_raises(channels)
           THEN /\ notifier' = [notifier EXCEPT !.pc = "failed"]
                /\ UNCHANGED attempts
           ELSE /\ notifier' = [notifier EXCEPT !.pc = "whatsapp"]
                /\ IF channels_get(channels, "email") /\ user.email
                   THEN \E ok \in BOOLEAN :
                            attempts' = attempts \cup {Attempt("email", ok)}
                   ELSE UNCHANGED attempts
    /\ UNCHANGED <<alerts, notify_queue, notify_faults>>
    /\ UNCHANGED notifierFrame
    /\ UNCHANGED notNotify

\* if channels.get("whatsapp") and user["whatsapp_number"]: try: send_whatsapp(...)
\* except: log; then the next user, or the end of the loop.
WhatsappStep ==
    /\ notifier.pc = "whatsapp"
    /\ LET channels == notifier.task.channels
           user == UserRow(notifier.users[notifier.i])
       IN  /\ notifier' =
                  IF notifier.i < Len(notifier.users)
                  THEN [notifier EXCEPT !.pc = "email", !.i = notifier.i + 1]
                  ELSE [notifier EXCEPT !.pc = "mark"]
           /\ IF channels_get(channels, "whatsapp") /\ user.whatsapp_number
              THEN \E ok \in BOOLEAN :
                       attempts' = attempts \cup {Attempt("whatsapp", ok)}
              ELSE UNCHANGED attempts
    /\ UNCHANGED <<alerts, notify_queue, notify_faults>>
    /\ UNCHANGED notifierFrame
    /\ UNCHANGED notNotify

\* mark_notification_sent_sync(alert_id), after the loop, then the log line
\* that reads channels.keys().
MarkSent ==
    /\ notifier.pc = "mark"
    /\ alerts' = mark_notification_sent(notifier.task.alert_id)
    /\ notifier' = IF channels_get_raises(notifier.task.channels)
                   THEN [notifier EXCEPT !.pc = "failed"]
                   ELSE [notifier EXCEPT !.pc = "done", !.outcome = "sent"]
    /\ UNCHANGED <<notify_queue, attempts, notify_faults>>
    /\ UNCHANGED notifierFrame
    /\ UNCHANGED notNotify

\* A database call of the task raises: "except Exception: log; raise".
NotifyRaises ==
    /\ notifier.pc \in {"load", "users", "mark"}
    /\ notify_faults < MaxNotifyFaults
    /\ notify_faults' = notify_faults + 1
    /\ notifier' = [notifier EXCEPT !.pc = "failed"]
    /\ UNCHANGED <<alerts, notify_queue, attempts>>
    /\ UNCHANGED notifierFrame
    /\ UNCHANGED notNotify

\* autoretry_for=(Exception,): the task is run again, at most max_retries times.
NotifyRetry ==
    /\ notifier.pc = "failed"
    /\ notifier.retries < notify_max_retries
    /\ notifier' = [notifier EXCEPT !.pc = "load", !.retries = notifier.retries + 1,
                       !.users = <<>>, !.i = 0, !.factory_id = 0]
    /\ UNCHANGED <<alerts, notify_queue, attempts, notify_faults>>
    /\ UNCHANGED notifierFrame
    /\ UNCHANGED notNotify

\* The retries are used up: the task is failed and the message acknowledged.
NotifyGiveUp ==
    /\ notifier.pc = "failed"
    /\ notifier.retries >= notify_max_retries
    /\ notifier' = [notifier EXCEPT !.pc = "idle", !.outcome = "failed"]
    /\ UNCHANGED <<alerts, notify_queue, attempts, notify_faults>>
    /\ UNCHANGED notifierFrame
    /\ UNCHANGED notNotify

\* The task returned: the message is acknowledged.
NotifyAck ==
    /\ notifier.pc = "done"
    /\ notifier' = [notifier EXCEPT !.pc = "idle"]
    /\ UNCHANGED <<alerts, notify_queue, attempts, notify_faults>>
    /\ UNCHANGED notifierFrame
    /\ UNCHANGED notNotify

\* PATCH /alerts/{alert_id}/resolve by a user of factory_id.
Resolve(factory_id, alert_id) ==
    /\ alerts' = resolve(factory_id, alert_id)
    /\ UNCHANGED <<notify_queue, notifier, attempts, notify_faults>>
    /\ UNCHANGED notifierFrame
    /\ UNCHANGED notNotify

NotifierStep ==
    \/ NotifyTake
    \/ LoadAlert
    \/ GetUsers
    \/ EmailStep
    \/ WhatsappStep
    \/ MarkSent
    \/ NotifyRaises
    \/ NotifyRetry
    \/ NotifyGiveUp
    \/ NotifyAck

(***************************************************************************)
(* SpecJobs: run_analytics_job (analytics.py) and generate_report          *)
(* (reporting.py).  The two tasks have the same shape: set the row to      *)
(* running, do the work in a try block, set it to complete, and on an      *)
(* exception set it to failed and call self.retry.                         *)
(***************************************************************************)
MaxJobFaults == 3

\* @celery_app.task(name="run_analytics_job", bind=True, max_retries=1, queue="analytics")
\* @celery_app.task(name="generate_report", bind=True, max_retries=1, queue="reporting")
job_max_retries == 1

JobKinds == {"analytics", "report"}

\* runs: the times the task was started; raised: the runs an exception ended.
IdleJobWorker == [pc |-> "idle", retries |-> 0, runs |-> 0, raised |-> 0,
                  text |-> FALSE, outcome |-> "none"]

JobsIdle ==
    /\ job_rows = EmptyDict
    /\ job_worker = [k \in JobKinds |-> IdleJobWorker]
    /\ job_history = [k \in JobKinds |-> <<>>]
    /\ job_faults = 0

\* update_job_status_sync / update_report_status_sync: UPDATE ... SET status = :status
\* and, "if error:", error_message = :error.  has_text: the error text is not empty.
update_job_status(kind, status, has_text) ==
    [job_rows EXCEPT ![kind] =
        [status |-> status,
         error_message |-> IF has_text THEN TRUE ELSE job_rows[kind].error_message]]

jobFrame == <<evalVars, engineVars, storeVars, ingestVars, repoVars, pureVars, ruleVars,
              notifyVars>>

\* POST /analytics/jobs, POST /reports: insert the row with status PENDING,
\* commit, then task.delay(job_id).
Submit(kind) ==
    /\ kind \notin DOMAIN job_rows
    /\ job_rows' = [k \in DOMAIN job_rows \cup {kind} |->
                       IF k = kind THEN [status |-> "pending", error_message |-> FALSE]
                       ELSE job_rows[k]]
    /\ job_history' = [job_history EXCEPT ![kind] = <<"pending">>]
    /\ job_worker' = [job_worker EXCEPT ![kind].pc = "start"]
    /\ UNCHANGED job_faults
    /\ UNCHANGED jobFrame

\* update_job_status_sync(job_id, "running"), before the try block.
JobRunning(kind) ==
    /\ job_worker[kind].pc = "start"
    /\ job_rows' = update_job_status(kind, "running", FALSE)
    /\ job_history' = [job_history EXCEPT ![kind] = Append(@, "running")]
    /\ job_worker' = [job_worker EXCEPT ![kind].pc = "work", ![kind].runs = @ + 1]
    /\ UNCHANGED job_faults
    /\ UNCHANGED jobFrame

\* That first update raises: it is outside the try block, so the row is not
\* touched, self.retry is not called and the task is failed.
JobRunningRaises(kind) ==
    /\ job_worker[kind].pc = "start"
    /\ job_faults < MaxJobFaults
    /\ job_faults' = job_faults + 1
    /\ job_worker' = [job_worker EXCEPT ![kind].pc = "dead", ![kind].runs = @ + 1,
                         ![kind].raised = @ + 1, ![kind].outcome = "failed"]
    /\ UNCHANGED <<job_rows, job_history>>
    /\ UNCHANGED jobFrame

\* The try block up to and including the upload of the result.
JobWork(kind) ==
    /\ job_worker[kind].pc = "work"
    /\ job_worker' = [job_worker EXCEPT ![kind].pc = "complete"]
    /\ UNCHANGED <<job_rows, job_history, job_faults>>
    /\ UNCHANGED jobFrame

\* update_job_status_sync(job_id, "complete", result_url=...); return
JobComplete(kind) ==
    /\ job_worker[kind].pc = "complete"
    /\ job_rows' = update_job_status(kind, "complete", FALSE)
    /\ job_history' = [job_history EXCEPT ![kind] = Append(@, "complete")]
    /\ job_worker' = [job_worker EXCEPT ![kind].pc = "returned",
                         ![kind].outcome = "complete"]
    /\ UNCHANGED job_faults
    /\ UNCHANGED jobFrame

\* A statement of the try block raises an exception e; has_text: str(e) is not
\* empty.  Control goes to "except Exception as e".
JobRaises(kind, has_text) ==
    /\ job_worker[kind].pc \in {"work", "complete"}
    /\ job_faults < MaxJobFaults
    /\ job_faults' = job_faults + 1
    /\ job_worker' = [job_worker EXCEPT ![kind].pc = "except", ![kind].text = has_text]
    /\ UNCHANGED <<job_rows, job_history>>
    /\ UNCHANGED jobFrame

\* update_job_status_sync(job_id, "failed", error=str(e))
JobFailed(kind) ==
    /\ job_worker[kind].pc = "except"
    /\ job_rows' = update_job_status(kind, "failed", job_worker[kind].text)
    /\ job_history' = [job_history EXCEPT ![kind] = Append(@, "failed")]
    /\ job_worker' = [job_worker EXCEPT ![kind].pc = "retry"]
    /\ UNCHANGED job_faults
    /\ UNCHANGED jobFrame

\* That update raises inside the except block: the exception leaves the task.
JobFailedRaises(kind) ==
    /\ job_worker[kind].pc = "except"
    /\ job_faults < MaxJobFaults
    /\ job_faults' = job_faults + 1
    /\ job_worker' = [job_worker EXCEPT ![kind].pc = "dead", ![kind].raised = @ + 1,
                         ![kind].outcome = "failed"]
    /\ UNCHANGED <<job_rows, job_history>>
    /\ UNCHANGED jobFrame

\* raise self.retry(exc=e): the task is published again while retries are
\* left, else e is raised and the task is failed.
JobRetry(kind) ==
    /\ job_worker[kind].pc = "retry"
    /\ job_worker' =
           IF job_worker[kind].retries < job_max_retries
           THEN [job_worker EXCEPT ![kind].pc = "start", ![kind].retries = @ + 1,
                    ![kind].raised = @ + 1]
           ELSE [job_worker EXCEPT ![kind].pc = "dead", ![kind].raised = @ + 1,
                    ![kind].outcome = "failed"]
    /\ UNCHANGED <<job_rows, job_history, job_faults>>
    /\ UNCHANGED jobFrame

\* The worker process is lost while it runs the task: task_acks_late and
\* task_reject_on_worker_lost deliver the message again.
JobWorkerLost(kind) ==
    /\ job_worker[kind].pc \in {"work", "complete", "except", "retry", "returned"}
    /\ job_faults < MaxJobFaults
    /\ job_faults' = job_faults + 1
    /\ job_worker' = [job_worker EXCEPT ![kind].pc = "start"]
    /\ UNCHANGED <<job_rows, job_history>>
    /\ UNCHANGED jobFrame

\* The task returned and its message is acknowledged.
JobAck(kind) ==
    /\ job_worker[kind].pc = "returned"
    /\ job_worker' = [job_worker EXCEPT ![kind].pc = "dead"]
    /\ UNCHANGED <<job_rows, job_history, job_faults>>
    /\ UNCHANGED jobFrame

(***************************************************************************)
(* SpecIngest: the MQTT subscriber and process_telemetry (src/telemetry).  *)
(***************************************************************************)
MaxMessages == 3
MaxIngestFaults == 1
MaxIngestClock == 1
NumSubscribers == 2
Subscribers == 1..NumSubscribers

\* Table factories (slug is unique).
FactoryTable == {[id |-> 1, slug |-> "vpc"], [id |-> 2, slug |-> "acme"]}

\* An MQTT topic, as topic.split("/") sees it.
Topics ==
    {<<"factories", "vpc", "devices", "M01", "telemetry">>,
     <<"factories", "nope", "devices", "M01", "telemetry">>,
     <<"factories", "vpc", "devices", "M01">>}

NotJson == [t |-> "garbage", n |-> 0]
OneMetric == [k \in {"temp"} |-> JNum(MaxValue)]
TwoMetrics == [k \in {"pressure", "temp"} |-> JNum(0)]

\* An MQTT payload: bytes that are no JSON document, or a JSON object.
Payloads ==
    {NotJson,
     [k \in {"metrics"} |-> EmptyDict],
     [k \in {"metrics"} |-> [p \in {"temp"} |-> JStr]],
     [k \in {"timestamp", "metrics"} |-> IF k = "timestamp" THEN JNum(0) ELSE OneMetric],
     [k \in {"timestamp", "metrics"} |-> IF k = "timestamp" THEN JNull ELSE TwoMetrics],
     [k \in {"timestamp", "metrics"} |-> IF k = "timestamp" THEN JStr ELSE OneMetric],
     [k \in {"metrics"} |-> TwoMetrics]}

\* parse_topic raises ValueError unless the topic is
\* factories/<factory_slug>/devices/<device_key>/telemetry
parse_topic_raises(parts) ==
    \/ Len(parts) # 5
    \/ parts[1] # "factories"
    \/ parts[3] # "devices"
    \/ parts[5] # "telemetry"
parse_topic(parts) == [factory_slug |-> parts[2], device_key |-> parts[4]]

\* TelemetryPayload.model_validate_json raises ValidationError unless the
\* payload is an object with a non-empty metrics dict of numbers and an absent,
\* null or well-formed timestamp.
TelemetryPayload_raises(payload) ==
    \/ ~IsObject(payload)
    \/ "metrics" \notin DOMAIN payload
    \/ ~IsObject(payload["metrics"])
    \/ \E k \in DOMAIN payload["metrics"] : payload["metrics"][k].t # "num"
    \/ DOMAIN payload["metrics"] = {}
    \/ /\ "timestamp" \in DOMAIN payload
       /\ payload["timestamp"].t \notin {"num", "null"}
TelemetryPayload(payload) ==
    [timestamp |-> IF "timestamp" \in DOMAIN payload THEN payload["timestamp"] ELSE JNull,
     metrics |-> payload["metrics"]]

\* The keys of a metrics dict in iteration order.
RECURSIVE KeyOrder(_)
KeyOrder(K) ==
    IF K = {} THEN <<>>
    ELSE LET k == CHOOSE x \in K : \A y \in K : (x = "temp") \/ (y # "temp")
         IN  <<k>> \o KeyOrder(K \ {k})

NoDevice == [id |-> 0, factory_id |-> 0, device_key |-> ""]
NoTopic == [factory_slug |-> "", device_key |-> ""]
NoData == [timestamp |-> JNull, metrics |-> EmptyDict]
\* The log lines process_telemetry ends with.
Outcomes == {"invalid_topic", "invalid_payload", "unknown_factory", "unhandled_error",
             "processed"}
IdleSubscriber ==
    [pc |-> "idle", topic |-> NoTopic, data |-> NoData, timestamp |-> 0, factory |-> 0,
     device |-> NoDevice, k |-> 0, staged |-> <<>>, log |-> [o \in Outcomes |-> 0]]

\* What process_telemetry has parsed from the message of subscriber s.
SubTopic(s) == sub[s].topic
SubData(s) == sub[s].data
SubKeys(s) == KeyOrder(DOMAIN sub[s].data.metrics)

\* process_telemetry returns: the subscriber loop awaits the next message.
Return(s, outcome) ==
    [sub[s] EXCEPT !.pc = "idle", !.topic = NoTopic, !.data = NoData,
                   !.timestamp = 0, !.factory = 0, !.device = NoDevice, !.k = 0,
                   !.staged = <<>>,
                   !.log[outcome] = @ + 1]

StoreIdle ==
    /\ device_rows = <<>>
    /\ parameter_rows = <<>>

IngestIdle ==
    /\ factory_cache = {}
    /\ device_cache = {}
    /\ points = {}
    /\ sub = [s \in Subscribers |-> IdleSubscriber]
    /\ received = 0

RepoIdle == repo_call = [op |-> "none", factory_id |-> 0, id |-> 0, result |-> [id |-> 0]]

\* No pure function has been called.
NoResult == [status |-> "pending"]
PureIdle ==
    /\ pure_call = [fn |-> "none"]
    /\ pure_result = NoResult

\* Time passes.
IngestTick ==
    /\ clock < MaxIngestClock
    /\ Tick

\* What no step of process_telemetry touches.
notIngest == <<clock, worker, alerts, alert_origin, cooldowns, notify_queue,
               evalVars, repoVars, pureVars, ruleVars,
    notifyVars, jobVars>>

\* async for message in client.messages: await process_telemetry(...), up to
\* the first await: parse_topic, model_validate_json and the timestamp fallback.
Receive(s, topic, payload) ==
    /\ sub[s].pc = "idle"
    /\ received < MaxMessages
    /\ received' = received + 1
    /\ sub' = [sub EXCEPT ![s] =
          IF parse_topic_raises(topic) THEN Return(s, "invalid_topic")
          ELSE IF TelemetryPayload_raises(payload) THEN Return(s, "invalid_payload")
          ELSE LET data == TelemetryPayload(payload)
               IN  [@ EXCEPT !.pc = "factory_cache",
                             !.topic = parse_topic(topic), !.data = data,
                             !.timestamp = IF data.timestamp.t = "null" THEN clock
                                           ELSE data.timestamp.n]]
    /\ UNCHANGED <<device_rows, parameter_rows, factory_cache, device_cache, points, queue, enqueued, faults>>
    /\ UNCHANGED notIngest

\* get_factory_by_slug: cached = await redis.get(cache_key)
FactoryCacheGet(s) ==
    /\ sub[s].pc = "factory_cache"
    /\ LET hit == {c \in factory_cache : c.slug = SubTopic(s).factory_slug}
       IN  sub' = [sub EXCEPT ![s] =
              IF hit # {} THEN [@ EXCEPT !.pc = "device_cache",
                                         !.factory = (CHOOSE c \in hit : TRUE).id]
              ELSE [@ EXCEPT !.pc = "factory_select"]]
    /\ UNCHANGED <<device_rows, parameter_rows, factory_cache, device_cache, points, received, queue, enqueued, faults>>
    /\ UNCHANGED notIngest

\* get_factory_by_slug: select(Factory).where(slug == slug), redis.setex, and
\* process_telemetry's "if not factory: return"
\* (FactorySelect_negative_cache is the lookup with the miss cached as well.)
FactorySelect_negative_cache(s) ==
    /\ sub[s].pc = "factory_select"
    /\ LET found == {f \in FactoryTable : f.slug = SubTopic(s).factory_slug}
       IN  IF found = {}
           THEN /\ sub' = [sub EXCEPT ![s] = Return(s, "unknown_factory")]
                /\ factory_cache' = factory_cache
                                      \cup {[slug |-> SubTopic(s).factory_slug, id |-> 0]}
           ELSE LET f == CHOOSE x \in found : TRUE
                IN  /\ factory_cache' = factory_cache \cup {[slug |-> f.slug, id |-> f.id]}
                    /\ sub' = [sub EXCEPT ![s] = [@ EXCEPT !.pc = "device_cache",
                                                           !.factory = f.id]]
    /\ UNCHANGED <<device_rows, parameter_rows, device_cache, points, received, queue, enqueued, faults>>
    /\ UNCHANGED notIngest
FactorySelect(s) ==
    /\ sub[s].pc = "factory_select"
    /\ LET found == {f \in FactoryTable : f.slug = SubTopic(s).factory_slug}
       IN  IF found = {}
           THEN /\ sub' = [sub EXCEPT ![s] = Return(s, "unknown_factory")]
                /\ UNCHANGED factory_cache
           ELSE LET f == CHOOSE x \in found : TRUE
                IN  /\ factory_cache' = factory_cache \cup {[slug |-> f.slug, id |-> f.id]}
                    /\ sub' = [sub EXCEPT ![s] = [@ EXCEPT !.pc = "device_cache",
                                                           !.factory = f.id]]
    /\ UNCHANGED <<device_rows, parameter_rows, device_cache, points, received, queue, enqueued, faults>>
    /\ UNCHANGED notIngest

\* get_or_create_device: cached = await redis.get(cache_key)
DeviceCacheGet(s) ==
    /\ sub[s].pc = "device_cache"
    /\ LET hit == {c \in device_cache : /\ c.factory_id = sub[s].factory
                                        /\ c.device_key = SubTopic(s).device_key}
       IN  sub' = [sub EXCEPT ![s] =
              IF hit # {} THEN [@ EXCEPT !.pc = "discover", !.k = 1,
                                         !.device = CHOOSE c \in hit : TRUE]
              ELSE [@ EXCEPT !.pc = "device_select"]]
    /\ UNCHANGED <<device_rows, parameter_rows, factory_cache, device_cache, points, received, queue, enqueued, faults>>
    /\ UNCHANGED notIngest

\* The same select without the factory_id condition.
DevicesByKey_any_factory(factory_id, device_key) ==
    {i \in 1..Len(device_rows) : device_rows[i].device_key = device_key}

\* The rows select(Device).where(factory_id == ..., device_key == ...) returns.
DevicesByKey(factory_id, device_key) ==
    {i \in 1..Len(device_rows) : /\ device_rows[i].factory_id = factory_id
                                 /\ device_rows[i].device_key = device_key}

AsCached(row) == [id |-> row.id, factory_id |-> row.factory_id, device_key |-> row.device_key]

\* get_or_create_device: device = result.scalar_one_or_none(), which raises
\* MultipleResultsFound when more than one row matches.
DeviceSelect(s) ==
    /\ sub[s].pc = "device_select"
    /\ LET found == DevicesByKey(sub[s].factory, SubTopic(s).device_key)
       IN  sub' = [sub EXCEPT ![s] =
              IF Cardinality(found) > 1 THEN Return(s, "unhandled_error")
              ELSE IF found = {} THEN [@ EXCEPT !.pc = "device_insert"]
              ELSE [@ EXCEPT !.pc = "device_setex",
                             !.device = AsCached(device_rows[CHOOSE i \in found : TRUE])]]
    /\ UNCHANGED <<device_rows, parameter_rows, factory_cache, device_cache, points, received, queue, enqueued, faults>>
    /\ UNCHANGED notIngest

\* get_or_create_device: db.add(Device(...)); await db.commit(); db.refresh
DeviceInsert(s) ==
    /\ sub[s].pc = "device_insert"
    /\ LET row == [id |-> Len(device_rows) + 1, factory_id |-> sub[s].factory,
                   device_key |-> SubTopic(s).device_key, name |-> "",
                   is_active |-> TRUE, last_seen |-> clock, updated_at |-> clock]
       IN  /\ device_rows' = Append(device_rows, row)
           /\ sub' = [sub EXCEPT ![s] = [@ EXCEPT !.pc = "device_setex",
                                                  !.device = AsCached(row)]]
    /\ UNCHANGED <<parameter_rows, factory_cache, device_cache, points, received, queue, enqueued, faults>>
    /\ UNCHANGED notIngest

\* get_or_create_device: await redis.setex(cache_key, 60, device_to_json(device))
DeviceSetex(s) ==
    /\ sub[s].pc = "device_setex"
    /\ device_cache' =
          {c \in device_cache : ~(/\ c.factory_id = sub[s].device.factory_id
                                  /\ c.device_key = sub[s].device.device_key)}
          \cup {sub[s].device}
    /\ sub' = [sub EXCEPT ![s] = [@ EXCEPT !.pc = "discover", !.k = 1]]
    /\ UNCHANGED <<device_rows, parameter_rows, factory_cache, points, received, queue, enqueued, faults>>
    /\ UNCHANGED notIngest

\* The rows SELECT id FROM device_parameters WHERE device_id = ... AND
\* parameter_key = ... returns.
ParametersByKey(device_id, key) ==
    {i \in 1..Len(parameter_rows) : /\ parameter_rows[i].device_id = device_id
                                    /\ parameter_rows[i].parameter_key = key}

\* The except clause that ends process_telemetry: log telemetry.unhandled_error
\* and return.
Unhandled_reraises(s) == [sub[s] EXCEPT !.pc = "raised"]
Unhandled(s) == Return(s, "unhandled_error")

\* discover_parameters, one iteration of "for key, value in metrics.items()":
\* the SELECT (scalar_one_or_none raises MultipleResultsFound on two rows) and
\* the INSERT ... ON DUPLICATE KEY UPDATE.  device_parameters has no unique
\* key, so the statement always inserts; the row is visible to other sessions
\* after the commit.
DiscoverKey(s) ==
    /\ sub[s].pc = "discover"
    /\ LET key == SubKeys(s)[sub[s].k]
           row == [factory_id |-> sub[s].factory, device_id |-> sub[s].device.id,
                   parameter_key |-> key, data_type |-> "int", display_name |-> "",
                   unit |-> "", is_kpi_selected |-> TRUE, updated_at |-> clock]
       IN  sub' = [sub EXCEPT ![s] =
              IF Cardinality(ParametersByKey(sub[s].device.id, key)) > 1
              THEN Unhandled(s)
              ELSE [@ EXCEPT !.staged = Append(@, row),
                             !.k = @ + 1,
                             !.pc = IF sub[s].k = Len(SubKeys(s)) THEN "discover_commit"
                                    ELSE "discover"]]
    /\ UNCHANGED <<device_rows, parameter_rows, factory_cache, device_cache, points,
                   received, queue, enqueued, faults>>
    /\ UNCHANGED notIngest

\* discover_parameters: await db.commit()
DiscoverCommit(s) ==
    /\ sub[s].pc = "discover_commit"
    /\ parameter_rows' = parameter_rows \o
          [j \in 1..Len(sub[s].staged) |->
              [id |-> Len(parameter_rows) + j] @@ sub[s].staged[j]]
    /\ sub' = [sub EXCEPT ![s] = [@ EXCEPT !.pc = "write", !.staged = <<>>]]
    /\ UNCHANGED <<device_rows, factory_cache, device_cache, points, received, queue,
                   enqueued, faults>>
    /\ UNCHANGED notIngest

\* build_points(factory.id, device.id, data.metrics, timestamp)
build_points(factory_id, device_id, metrics, timestamp) ==
    {[factory_id |-> factory_id, device_id |-> device_id, parameter |-> k,
      value |-> float(metrics[k]).n, time |-> timestamp] : k \in DOMAIN metrics}

\* await write_batch(influx_write_api, points)
WriteBatch(s) ==
    /\ sub[s].pc = "write"
    /\ points' = points \cup build_points(sub[s].factory, sub[s].device.id,
                                          SubData(s).metrics, sub[s].timestamp)
    /\ sub' = [sub EXCEPT ![s] = [@ EXCEPT !.pc = "last_seen"]]
    /\ UNCHANGED <<device_rows, parameter_rows, factory_cache, device_cache, received,
                   queue, enqueued, faults>>
    /\ UNCHANGED notIngest

\* update(Device).where(Device.id == device.id).values(last_seen=timestamp); commit
UpdateLastSeen(s) ==
    /\ sub[s].pc = "last_seen"
    /\ device_rows' = [i \in 1..Len(device_rows) |->
                          IF device_rows[i].id = sub[s].device.id
                          THEN [device_rows[i] EXCEPT !.last_seen = sub[s].timestamp]
                          ELSE device_rows[i]]
    /\ sub' = [sub EXCEPT ![s] = [@ EXCEPT !.pc = "dispatch"]]
    /\ UNCHANGED <<parameter_rows, factory_cache, device_cache, points, received, queue,
                   enqueued, faults>>
    /\ UNCHANGED notIngest

\* evaluate_rules_task.delay(factory_id, device_id, metrics, timestamp), the
\* telemetry.processed log line and the return.
Dispatch(s) ==
    /\ sub[s].pc = "dispatch"
    /\ enqueued' = enqueued + 1
    /\ queue' = Append(queue, [id |-> enqueued + 1, factory_id |-> sub[s].factory,
                               device_id |-> sub[s].device.id,
                               metrics |-> SubData(s).metrics,
                               timestamp |-> sub[s].timestamp, retries |-> 0,
                               deliveries |-> 0])
    /\ sub' = [sub EXCEPT ![s] = Return(s, "processed")]
    /\ UNCHANGED <<device_rows, parameter_rows, factory_cache, device_cache, points,
                   received, faults>>
    /\ UNCHANGED notIngest

\* The cache or the relational store fails in a step that no inner try covers
\* (steps 3 to 5): the exception reaches the except clause of process_telemetry.
\* The session closes without a commit, so staged rows are lost.
StepRaises(s) ==
    /\ sub[s].pc \in {"factory_cache", "factory_select", "device_cache", "device_select",
                      "device_insert", "device_setex", "discover", "discover_commit"}
    /\ faults < MaxIngestFaults
    /\ faults' = faults + 1
    /\ sub' = [sub EXCEPT ![s] = Unhandled(s)]
    /\ UNCHANGED <<device_rows, parameter_rows, factory_cache, device_cache, points,
                   received, queue, enqueued>>
    /\ UNCHANGED notIngest

\* The time-series write, the last_seen update or the enqueue fails: write_batch
\* and the inner try blocks of steps 7 and 8 log it and the pipeline goes on.
StepSwallowed(s) ==
    /\ sub[s].pc \in {"write", "last_seen", "dispatch"}
    /\ faults < MaxIngestFaults
    /\ faults' = faults + 1
    /\ sub' = [sub EXCEPT ![s] =
          CASE sub[s].pc = "write" -> [@ EXCEPT !.pc = "last_seen"]
            [] sub[s].pc = "last_seen" -> [@ EXCEPT !.pc = "dispatch"]
            [] sub[s].pc = "dispatch" -> Return(s, "processed")]
    /\ UNCHANGED <<device_rows, parameter_rows, factory_cache, device_cache, points,
                   received, queue, enqueued>>
    /\ UNCHANGED notIngest

\* A cached device reaches its 60-second TTL.
ExpireDevice(c) ==
    /\ c \in device_cache
    /\ device_cache' = device_cache \ {c}
    /\ UNCHANGED <<device_rows, parameter_rows, factory_cache, points, sub, received,
                   queue, enqueued, faults>>
    /\ UNCHANGED notIngest

EvalIdle ==
    /\ condition_tree = EmptyDict
    /\ eval_metrics = EmptyDict
    /\ eval_result = "pending"

Init == EvalIdle /\ EngineIdle /\ StoreIdle /\ IngestIdle /\ RepoIdle /\ NotifyIdle /\ JobsIdle /\ PureIdle /\ RulesSeeded

\* The same while at most MaxSerialTasks messages are published.
EnqueueSerial(d, m, ts) ==
    /\ enqueued < MaxSerialTasks
    /\ Enqueue(d, m, ts)

\* The steps of one worker.
WorkerStep(w) ==
    \/ Take(w)
    \/ TakeFails(w)
    \/ Retry(w)
    \/ Gate(w)
    \/ CreateAlert(w)
    \/ UpsertCooldown(w)
    \/ EnqueueNotification(w)
    \/ RuleError(w)
    \/ Ack(w)
    \/ WorkerLost(w)

\* A pool of Workers consuming the rule_engine queue.
Next ==
    \/ Tick
    \/ \E d \in Devices, m \in TaskMetrics, ts \in 0..MaxClock : Enqueue(d, m, ts)
    \/ \E w \in Workers : WorkerStep(w)

\* A single worker consuming the rule_engine queue: invocations run one
\* after the other.
NextSerial ==
    \/ Tick
    \/ \E d \in Devices, m \in TaskMetrics, ts \in 0..MaxClock : EnqueueSerial(d, m, ts)
    \/ WorkerStep(1)

(***************************************************************************)
(* SpecRepo: device_repo and parameter_repo called by the HTTP facade with *)
(* the tenant id of the caller's token.                                    *)
(***************************************************************************)
Tenants == {f.id : f \in FactoryTable}
NoRow == [id |-> 0]

\* DeviceUpdate bodies (exclude_unset) and ParameterUpdate bodies.
DeviceUpdates == {[k \in {"name"} |-> "Press 1"], [k \in {"is_active"} |-> FALSE]}
ParameterUpdates ==
    {[k \in {"is_kpi_selected"} |-> FALSE],
     [k \in {"display_name", "unit"} |-> IF k = "unit" THEN "C" ELSE "Temperature"]}

\* for key, value in data.items(): setattr(row, key, value)
setattrs(row, data) ==
    [k \in DOMAIN row |-> IF k \in DOMAIN data THEN data[k] ELSE row[k]]

\* device_repo.get_by_id without the factory_id condition.
device_get_by_id_unscoped(factory_id, device_id) ==
    LET found == {i \in 1..Len(device_rows) : device_rows[i].id = device_id}
    IN  IF found = {} THEN NoRow ELSE device_rows[CHOOSE i \in found : TRUE]

\* device_repo.get_by_id: select(Device).where(id == device_id, factory_id == factory_id)
device_get_by_id(factory_id, device_id) ==
    LET found == {i \in 1..Len(device_rows) : /\ device_rows[i].id = device_id
                                              /\ device_rows[i].factory_id = factory_id}
    IN  IF found = {} THEN NoRow ELSE device_rows[CHOOSE i \in found : TRUE]

\* The rows at the positions S, latest position first.
RECURSIVE Descending(_, _)
Descending(rows, S) ==
    IF S = {} THEN <<>>
    ELSE LET i == CHOOSE x \in S : \A y \in S : x >= y
         IN  <<rows[i]>> \o Descending(rows, S \ {i})

\* The rows at the positions S ordered by parameter_key, ties in id order.
RECURSIVE ByParameterKey(_, _)
ByParameterKey(rows, S) ==
    IF S = {} THEN <<>>
    ELSE LET first == CHOOSE x \in S : \A y \in S :
                  \/ rows[x].parameter_key = rows[y].parameter_key /\ x <= y
                  \/ rows[x].parameter_key = "pressure" /\ rows[y].parameter_key = "temp"
         IN  <<rows[first]>> \o ByParameterKey(rows, S \ {first})

notRepo == <<evalVars, engineVars, ingestVars, pureVars, ruleVars,
    notifyVars, jobVars>>

\* device_repo.get_by_id(db, factory_id, device_id)
DeviceGetById(factory_id, device_id) ==
    /\ repo_call' = [op |-> "device.get_by_id", factory_id |-> factory_id,
                     id |-> device_id, result |-> device_get_by_id(factory_id, device_id)]
    /\ UNCHANGED <<storeVars, notRepo>>

\* device_repo.get_all(db, factory_id, is_active=...): page 1 of the tenant's
\* devices, newest first (created_at follows insertion order).
DeviceGetAll(factory_id, is_active) ==
    /\ LET found == {i \in 1..Len(device_rows) :
                        /\ device_rows[i].factory_id = factory_id
                        /\ is_active # "None" => device_rows[i].is_active = (is_active = "True")}
       IN  repo_call' = [op |-> "device.get_all", factory_id |-> factory_id, id |-> 0,
                         result |-> [id |-> 0, devices |-> Descending(device_rows, found),
                                     total |-> Cardinality(found)]]
    /\ UNCHANGED <<storeVars, notRepo>>

\* device_repo.update(db, factory_id, device_id, data)
DeviceUpdate(factory_id, device_id, data) ==
    /\ LET device == device_get_by_id(factory_id, device_id)
           updated == [setattrs(device, data) EXCEPT !.updated_at = clock]
       IN  IF device.id = 0
           THEN /\ repo_call' = [op |-> "device.update", factory_id |-> factory_id,
                                 id |-> device_id, result |-> NoRow]
                /\ UNCHANGED device_rows
           ELSE /\ device_rows' = [i \in 1..Len(device_rows) |->
                                      IF device_rows[i].id = device.id THEN updated
                                      ELSE device_rows[i]]
                /\ repo_call' = [op |-> "device.update", factory_id |-> factory_id,
                                 id |-> device_id, result |-> updated]
    /\ UNCHANGED <<parameter_rows, notRepo>>

\* parameter_repo.get_all(db, factory_id, device_id)
ParameterGetAll(factory_id, device_id) ==
    /\ LET found == {i \in 1..Len(parameter_rows) :
                        /\ parameter_rows[i].factory_id = factory_id
                        /\ parameter_rows[i].device_id = device_id}
       IN  repo_call' = [op |-> "parameter.get_all", factory_id |-> factory_id,
                         id |-> device_id,
                         result |-> [id |-> 0, parameters |-> ByParameterKey(parameter_rows, found)]]
    /\ UNCHANGED <<storeVars, notRepo>>

\* parameter_repo.update(db, factory_id, device_id, param_id, data)
ParameterUpdate(factory_id, device_id, param_id, data) ==
    /\ LET found == {i \in 1..Len(parameter_rows) :
                        /\ parameter_rows[i].id = param_id
                        /\ parameter_rows[i].factory_id = factory_id
                        /\ parameter_rows[i].device_id = device_id}
       IN  IF found = {}
           THEN /\ repo_call' = [op |-> "parameter.update", factory_id |-> factory_id,
                                 id |-> param_id, result |-> NoRow]
                /\ UNCHANGED parameter_rows
           ELSE LET i == CHOOSE x \in found : TRUE
                    updated == [setattrs(parameter_rows[i], data) EXCEPT !.updated_at = clock]
                IN  /\ parameter_rows' = [parameter_rows EXCEPT ![i] = updated]
                    /\ repo_call' = [op |-> "parameter.update", factory_id |-> factory_id,
                                     id |-> param_id, result |-> updated]
    /\ UNCHANGED <<device_rows, notRepo>>

\* The tables after device M01 of each tenant and device M02 of tenant 1 have
\* sent telemetry at minute 0.
StoreSeeded ==
    /\ device_rows =
          [i \in 1..3 |-> [id |-> i, factory_id |-> IF i = 2 THEN 2 ELSE 1,
                           device_key |-> IF i = 3 THEN "M02" ELSE "M01", name |-> "",
                           is_active |-> TRUE, last_seen |-> 0, updated_at |-> 0]]
    /\ parameter_rows =
          [i \in 1..2 |-> [id |-> i, factory_id |-> i, device_id |-> i,
                           parameter_key |-> "temp", data_type |-> "int",
                           display_name |-> "", unit |-> "", is_kpi_selected |-> TRUE,
                           updated_at |-> 0]]

InitRepo == EvalIdle /\ EngineIdleAt(1) /\ IngestIdle /\ RepoIdle /\ NotifyIdle /\ JobsIdle /\ PureIdle /\ RulesSeeded /\ StoreSeeded

\* Requests of either tenant, with any row id.
NextRepo ==
    \/ \E t \in Tenants, d \in 1..Len(device_rows) : DeviceGetById(t, d)
    \/ \E t \in Tenants, a \in {"None", "True", "False"} : DeviceGetAll(t, a)
    \/ \E t \in Tenants, d \in 1..Len(device_rows), data \in DeviceUpdates :
           DeviceUpdate(t, d, data)
    \/ \E t \in Tenants, d \in 1..Len(device_rows) : ParameterGetAll(t, d)
    \/ \E t \in Tenants, d \in 1..Len(device_rows), q \in 1..Len(parameter_rows),
          data \in ParameterUpdates : ParameterUpdate(t, d, q, data)

\* The steps of one subscriber process.
SubscriberStep(s) ==
    \/ \E topic \in Topics, payload \in Payloads : Receive(s, topic, payload)
    \/ FactoryCacheGet(s)
    \/ FactorySelect(s)
    \/ DeviceCacheGet(s)
    \/ DeviceSelect(s)
    \/ DeviceInsert(s)
    \/ DeviceSetex(s)
    \/ DiscoverKey(s)
    \/ DiscoverCommit(s)
    \/ WriteBatch(s)
    \/ UpdateLastSeen(s)
    \/ Dispatch(s)
    \/ StepRaises(s)
    \/ StepSwallowed(s)

\* A user of the owning tenant deselects parameter q as a KPI.
UserDeselects(q) ==
    ParameterUpdate(parameter_rows[q].factory_id, parameter_rows[q].device_id, q,
                    [k \in {"is_kpi_selected"} |-> FALSE])

\* Subscriber processes on one broker, cache and database, racing within one
\* minute of the clock.
NextIngest ==
    \/ \E s \in Subscribers : SubscriberStep(s)
    \/ \E c \in device_cache : ExpireDevice(c)

\* The subscriber as deployed: one process, one message at a time.
NextIngestSerial ==
    \/ IngestTick
    \/ SubscriberStep(1)
    \/ \E c \in device_cache : ExpireDevice(c)

\* The deployed subscriber next to users who edit the discovered parameters.
NextIngestUser ==
    \/ IngestTick
    \/ SubscriberStep(1)
    \/ \E c \in device_cache : ExpireDevice(c)
    \/ \E q \in 1..Len(parameter_rows) : UserDeselects(q)


vars == <<evalVars, engineVars, storeVars, ingestVars, repoVars, pureVars, ruleVars,
    notifyVars, jobVars>>

Spec == Init /\ [][Next]_vars

SpecSerial == Init /\ [][NextSerial]_vars

SpecIngest == Init /\ [][NextIngest]_vars

SpecIngestSerial == Init /\ [][NextIngestSerial]_vars

SpecRepo == InitRepo /\ [][NextRepo]_vars

SpecIngestUser == Init /\ [][NextIngestUser]_vars

InitEvalOnly == InitEval /\ EngineIdle /\ StoreIdle /\ IngestIdle /\ RepoIdle /\ NotifyIdle /\ JobsIdle /\ PureIdle /\ RulesSeeded

SpecEval == InitEvalOnly /\ [][NextEval]_vars

(***************************************************************************)
(* SpecPipeline: the deployed subscriber feeding one rule-engine worker.   *)
(***************************************************************************)
\* Time passes between two task runs: a run takes less than a minute.
PipelineTick ==
    /\ worker[1].pc = "idle"
    /\ Tick

NextPipeline ==
    \/ PipelineTick
    \/ SubscriberStep(1)
    \/ WorkerStep(1)

SpecPipeline == Init /\ [][NextPipeline]_vars

(***************************************************************************)
(* SpecGate: one worker and one rule without cooldown, whose schedule is   *)
(* any of the bounded schedules, on one message of any time of MaxDays days.*)
(***************************************************************************)
MaxDays == 2

TimeValues == {JNum(n) : n \in 0..MaxClock} \cup {JStr}
DaysValues == {JList(S) : S \in SUBSET (1..MaxDays)} \cup {JStr}
DateValues == {JNum(n) : n \in 0..(MaxDays - 1)} \cup {JStr}

\* schedule_config of a time_window rule: any of the keys may be missing.
TimeWindowConfigs ==
    LET times == UNION {[K -> TimeValues] : K \in SUBSET {"start_time", "end_time"}}
    IN  times \cup {[k \in DOMAIN c \cup {"days"} |-> IF k = "days" THEN d ELSE c[k]] :
                        c \in times, d \in DaysValues}

DateRangeConfigs ==
    UNION {[K -> DateValues] : K \in SUBSET {"start_date", "end_date"}}

GateRule(type, config) ==
    [id |-> 1, factory_id |-> 1, scope |-> "global", devices |-> {},
     is_active |-> TRUE, cooldown_minutes |-> 0, severity |-> "low",
     conditions |-> [operator |-> "AND", conditions |->
         <<[parameter |-> "temp", operator |-> "gt", value |-> JNum(1)]>>],
     schedule_type |-> type, schedule_config |-> config,
     notification_channels |-> [email |-> TRUE, whatsapp |-> FALSE]]

GateRules ==
    {GateRule("always", JNull), GateRule("time_window", JNull),
     GateRule("date_range", JNull)}
    \cup {GateRule("time_window", c) : c \in TimeWindowConfigs}
    \cup {GateRule("date_range", c) : c \in DateRangeConfigs}

InitGate ==
    /\ EvalIdle /\ EngineIdle /\ StoreIdle /\ IngestIdle /\ RepoIdle /\ NotifyIdle /\ JobsIdle /\ PureIdle
    /\ \E r \in GateRules : rule_rows = {r}

\* The one message of the run.
EnqueueFirst(d, m, ts) ==
    /\ enqueued = 0
    /\ Enqueue(d, m, ts)

NextGate ==
    \/ \E m \in TaskMetrics, ts \in 0..(MaxDays * DayLength - 1) : EnqueueFirst(1, m, ts)
    \/ WorkerStep(1)

SpecGate == InitGate /\ [][NextGate]_vars

(***************************************************************************)
(* SpecPure: the pure functions applied to bounded inputs.                 *)
(***************************************************************************)
MaxTopicLen == 6

\* The segments topic.split("/") can give; "" is an empty level (a//b).
TopicSegments == {"factories", "devices", "telemetry", "vpc", ""}
TopicInputs == UNION {[1..n -> TopicSegments] : n \in 1..MaxTopicLen}

notPure == <<evalVars, engineVars, storeVars, ingestVars, repoVars, ruleVars,
    notifyVars, jobVars>>

\* parse_topic(topic)
ParseTopic ==
    /\ pure_call.fn = "parse_topic"
    /\ pure_result = NoResult
    /\ pure_result' =
          IF parse_topic_raises(pure_call.parts) THEN [status |-> "raised"]
          ELSE [status |-> "returned", value |-> parse_topic(pure_call.parts)]
    /\ UNCHANGED pure_call
    /\ UNCHANGED notPure

\* process_telemetry, step 2: data = TelemetryPayload.model_validate_json(payload)
\* and timestamp = data.timestamp or datetime.utcnow()
ModelValidateJson ==
    /\ pure_call.fn = "model_validate_json"
    /\ pure_result = NoResult
    /\ pure_result' =
          IF TelemetryPayload_raises(pure_call.payload) THEN [status |-> "raised"]
          ELSE LET data == TelemetryPayload(pure_call.payload)
               IN  [status |-> "returned",
                    value |-> [data |-> data,
                               timestamp |-> IF data.timestamp.t = "null"
                                             THEN pure_call.utcnow
                                             ELSE data.timestamp.n]]
    /\ UNCHANGED pure_call
    /\ UNCHANGED notPure

\* The names the four tasks are registered under: @celery_app.task(name=...).
TaskNames == {"evaluate_rules", "send_notifications", "run_analytics_job",
              "generate_report"}

\* The queue option of the task decorator, "" when it has none.
task_queue(name) ==
    CASE name = "run_analytics_job" -> "analytics"
      [] name = "generate_report" -> "reporting"
      [] OTHER -> ""

\* celery_app.conf.task_routes: keyed by dotted paths of the task functions.
task_routes ==
    [k \in {"app.workers.rule_engine.evaluate_rules_task",
            "app.workers.analytics.run_analytics_job",
            "app.workers.reporting.generate_report",
            "app.workers.notifications.send_notifications"} |->
        CASE k = "app.workers.rule_engine.evaluate_rules_task" -> "rule_engine"
          [] k = "app.workers.analytics.run_analytics_job" -> "analytics"
          [] k = "app.workers.reporting.generate_report" -> "reporting"
          [] OTHER -> "notifications"]

\* task_default_queue is not configured: Celery's default queue.
task_default_queue == "celery"

\* The queue task.delay() publishes to: the task's queue option, else the
\* route whose key is the task's name, else the default queue.
route(name) ==
    IF task_queue(name) # "" THEN task_queue(name)
    ELSE IF name \in DOMAIN task_routes THEN task_routes[name]
    ELSE task_default_queue

\* task.delay(...): the message is published to route(task.name).
Delay ==
    /\ pure_call.fn = "delay"
    /\ pure_result = NoResult
    /\ pure_result' = [status |-> "returned",
                       value |-> [queue |-> route(pure_call.task)]]
    /\ UNCHANGED pure_call
    /\ UNCHANGED notPure

PureCalls ==
    {[fn |-> "parse_topic", parts |-> t] : t \in TopicInputs}
    \cup {[fn |-> "model_validate_json", payload |-> p, utcnow |-> now] :
             p \in Payloads, now \in 0..MaxIngestClock}
    \cup {[fn |-> "delay", task |-> name] : name \in TaskNames}

InitPure ==
    /\ EvalIdle /\ EngineIdle /\ StoreIdle /\ IngestIdle /\ RepoIdle /\ NotifyIdle /\ JobsIdle /\ RulesSeeded
    /\ pure_call \in PureCalls
    /\ pure_result = NoResult

NextPure ==
    \/ ParseTopic
    \/ ModelValidateJson
    \/ Delay

SpecPure == InitPure /\ [][NextPure]_vars

(***************************************************************************)
(* SpecNotify: one notifications worker, messages with any alert id and    *)
(* any channels, users resolving alerts while time passes.                 *)
(***************************************************************************)
InitNotify ==
    /\ EvalIdle /\ StoreIdle /\ IngestIdle /\ RepoIdle /\ NotifyIdle /\ JobsIdle
    /\ PureIdle /\ RulesSeeded
    /\ clock = 0
    /\ queue = <<>>
    /\ enqueued = 0
    /\ faults = 0
    /\ worker = [w \in Workers |-> IdleWorker]
    /\ alerts = SeedAlerts
    /\ alert_origin = <<>>
    /\ cooldowns = {}
    /\ notify_queue = <<>>

NextNotify ==
    \/ Tick
    \/ \E alert_id \in NotifyAlertIds, channels \in ChannelInputs :
           Publish(alert_id, channels)
    \/ NotifierStep
    \/ \E factory_id \in Tenants, alert_id \in NotifyAlertIds :
           Resolve(factory_id, alert_id)

SpecNotify == InitNotify /\ [][NextNotify]_vars

(***************************************************************************)
(* SpecJobs: one analytics job and one report, each run by its worker.     *)
(***************************************************************************)
JobStep(kind) ==
    \/ Submit(kind)
    \/ JobRunning(kind)
    \/ JobRunningRaises(kind)
    \/ JobWork(kind)
    \/ JobComplete(kind)
    \/ \E has_text \in BOOLEAN : JobRaises(kind, has_text)
    \/ JobFailed(kind)
    \/ JobFailedRaises(kind)
    \/ JobRetry(kind)
    \/ JobWorkerLost(kind)
    \/ JobAck(kind)

NextJobs == \E kind \in JobKinds : JobStep(kind)

SpecJobs == Init /\ [][NextJobs]_vars

(***************************************************************************)
(* SpecScope: one worker and one evaluate_rules message for any tenant and *)
(* device, over any table of rules that differ in tenant, scope, linked    *)
(* devices and the active flag.  Every rule matches the metrics sent.      *)
(***************************************************************************)
ScopeRule(id, factory_id, scope, devices, is_active) ==
    [id |-> id, factory_id |-> factory_id, scope |-> scope, devices |-> devices,
     is_active |-> is_active, cooldown_minutes |-> 0, severity |-> "high",
     conditions |-> [operator |-> "AND", conditions |->
         <<[parameter |-> "temp", operator |-> "gt", value |-> JNum(1)]>>],
     schedule_type |-> "always", schedule_config |-> JNull,
     notification_channels |-> [email |-> TRUE, whatsapp |-> FALSE]]

ScopeRules ==
    {ScopeRule(1, 1, "global", {}, TRUE),
     ScopeRule(2, 1, "global", {}, FALSE),
     ScopeRule(3, 2, "global", {}, TRUE),
     ScopeRule(4, 1, "device", {2}, TRUE),
     ScopeRule(5, 1, "device", {1}, TRUE),
     ScopeRule(6, 2, "device", {1}, TRUE)}

ScopeDevices == {1, 2}

InitScope ==
    /\ EvalIdle /\ EngineIdle /\ StoreIdle /\ IngestIdle /\ RepoIdle /\ NotifyIdle /\ JobsIdle /\ PureIdle
    /\ rule_rows \in SUBSET ScopeRules

\* The one message of the run, with metrics every rule matches.
EnqueueScoped(f, d) ==
    /\ enqueued = 0
    /\ EnqueueFor(f, d, [k \in {"temp", "pressure"} |-> JNum(MaxValue)], 0)

NextScope ==
    \/ \E f \in Tenants, d \in ScopeDevices : EnqueueScoped(f, d)
    \/ WorkerStep(1)

SpecScope == InitScope /\ [][NextScope]_vars

(***************************************************************************)
(* SpecTenants: the deployed subscriber feeding one rule-engine worker,    *)
(* with two tenants that publish under the same device key and have rules  *)
(* of their own.                                                           *)
(***************************************************************************)
MaxTenantMessages == 2

TenantTopics ==
    {<<"factories", "vpc", "devices", "M01", "telemetry">>,
     <<"factories", "acme", "devices", "M01", "telemetry">>}

TenantPayload ==
    [k \in {"timestamp", "metrics"} |-> IF k = "timestamp" THEN JNum(0) ELSE OneMetric]

TenantRules ==
    {ScopeRule(1, 1, "global", {}, TRUE),
     ScopeRule(3, 2, "global", {}, TRUE),
     ScopeRule(5, 1, "device", {1}, TRUE),
     ScopeRule(6, 2, "device", {1}, TRUE)}

InitTenants ==
    /\ EvalIdle /\ EngineIdle /\ StoreIdle /\ IngestIdle /\ RepoIdle /\ NotifyIdle /\ JobsIdle /\ PureIdle
    /\ rule_rows = TenantRules

\* A message of one of the two tenants arrives.
ReceiveTenant(s) ==
    /\ received < MaxTenantMessages
    /\ \E topic \in TenantTopics : Receive(s, topic, TenantPayload)

NextTenants ==
    \/ ReceiveTenant(1)
    \/ FactoryCacheGet(1)
    \/ FactorySelect(1)
    \/ DeviceCacheGet(1)
    \/ DeviceSelect(1)
    \/ DeviceInsert(1)
    \/ DeviceSetex(1)
    \/ DiscoverKey(1)
    \/ DiscoverCommit(1)
    \/ WriteBatch(1)
    \/ UpdateLastSeen(1)
    \/ Dispatch(1)
    \/ StepRaises(1)
    \/ StepSwallowed(1)
    \/ \E c \in device_cache : ExpireDevice(c)
    \/ Take(1)
    \/ Gate(1)
    \/ CreateAlert(1)
    \/ UpsertCooldown(1)
    \/ EnqueueNotification(1)
    \/ Ack(1)

SpecTenants == InitTenants /\ [][NextTenants]_vars

(***************************************************************************)
(* Properties of the rule engine task.                                     *)
(***************************************************************************)
AlertIds == 1..Len(alerts)
Cooldown(rule_id) == RuleRow(rule_id).cooldown_minutes
Distance(a, b) == IF a >= b THEN a - b ELSE b - a

\* C1: for a rule with cooldown c > 0 and a device, every two Alerts for that
\* rule and device have triggered_at values at least c minutes apart.
C1_CooldownSpacing ==
    \A i \in AlertIds, j \in AlertIds :
        (/\ i < j
         /\ alerts[i].rule_id = alerts[j].rule_id
         /\ alerts[i].device_id = alerts[j].device_id
         /\ Cooldown(alerts[i].rule_id) > 0)
        => Distance(alerts[i].triggered_at, alerts[j].triggered_at)
               >= Cooldown(alerts[i].rule_id)

\* Worker w has inserted an Alert for the current rule and has not yet written
\* the Cooldown row; a cooldown check made now against that Alert's
\* triggered_at would say "in cooldown".
HoldsFreshAlert(w) ==
    /\ worker[w].pc = "upsert"
    /\ Cooldown(CurrentRule(w).id) > 0
    /\ clock - worker[w].task.timestamp < Cooldown(CurrentRule(w).id)

\* C2: two concurrent evaluate_rules tasks for the same tenant and device that
\* both match rule R (cooldown > 0) serialize on the Cooldown row: at most one
\* of them creates an Alert, the other sees the fresh last_triggered and skips.
C2_SerializeOnCooldownRow ==
    \A v \in Workers, w \in Workers :
        (/\ v < w
         /\ HoldsFreshAlert(v)
         /\ HoldsFreshAlert(w)
         /\ worker[v].task.factory_id = worker[w].task.factory_id
         /\ worker[v].task.device_id = worker[w].task.device_id)
        => CurrentRule(v).id # CurrentRule(w).id

\* C3: when an evaluate_rules task is delivered again, a delivery inside the
\* cooldown window of a rule (cooldown > 0) creates no additional Alert for
\* that rule and device: there are no two Alerts of one task, from different
\* deliveries, while the clock is still inside the window of the first.
C3_RedeliveryInsideWindow ==
    \A i \in AlertIds, j \in AlertIds :
        (/\ i < j
         /\ alert_origin[i].task = alert_origin[j].task
         /\ alert_origin[i].delivery < alert_origin[j].delivery
         /\ alerts[i].rule_id = alerts[j].rule_id
         /\ alerts[i].device_id = alerts[j].device_id
         /\ Cooldown(alerts[i].rule_id) > 0)
        => clock - alerts[i].triggered_at >= Cooldown(alerts[i].rule_id)

\* The Alerts the current delivery of worker w's task inserted for a rule.
FiredBy(w, rule_id) ==
    {i \in AlertIds :
        /\ alert_origin[i].task = worker[w].task.id
        /\ alert_origin[i].delivery = worker[w].task.deliveries
        /\ alerts[i].rule_id = rule_id}

\* The schedule gate and the condition gate of a rule for worker w's task.
Matches(w, rule_id) ==
    /\ is_rule_scheduled(RuleRow(rule_id), worker[w].task.timestamp)
    /\ evaluate_conditions(RuleRow(rule_id).conditions, worker[w].task.metrics)

\* C4: an exception raised while one rule is processed does not change which
\* Alerts the invocation creates for the other rules it loaded, and does not
\* make the task fail or retry.  When the invocation has returned, every rule
\* that raised nothing has an Alert only if its gates passed, and (without a
\* cooldown) exactly when they passed; a failed task has entered no rule.
C4_RuleFailureIsolated ==
    \A w \in Workers :
        /\ worker[w].pc = "failed" => worker[w].i = 0 /\ worker[w].errors = {}
        /\ worker[w].pc = "done" =>
               \A k \in 1..Len(worker[w].rules) :
                   LET r == worker[w].rules[k]
                   IN  r \notin worker[w].errors =>
                           /\ Cardinality(FiredBy(w, r)) <= 1
                           /\ FiredBy(w, r) # {} => Matches(w, r)
                           /\ (Cooldown(r) = 0 /\ Matches(w, r)) => FiredBy(w, r) # {}

\* An invocation has returned after one rule raised and a sibling rule fired.
C4_Witness ==
    \E w \in Workers :
        /\ worker[w].pc = "done"
        /\ worker[w].errors # {}
        /\ \E k \in 1..Len(worker[w].rules) :
               /\ worker[w].rules[k] \notin worker[w].errors
               /\ FiredBy(w, worker[w].rules[k]) # {}

(***************************************************************************)
(* Properties of process_telemetry and of the repositories.                *)
(***************************************************************************)
InFlight(s) == IF sub[s].pc = "idle" THEN 0 ELSE 1

\* The number of log lines in the entries E of sub[s].log.
RECURSIVE Returned(_, _)
Returned(s, E) ==
    IF E = {} THEN 0
    ELSE LET o == CHOOSE x \in E : TRUE
         IN  sub[s].log[o] + Returned(s, E \ {o})

RECURSIVE Handled(_)
Handled(S) ==
    IF S = {} THEN 0
    ELSE LET s == CHOOSE x \in S : TRUE
         IN  Returned(s, Outcomes) + InFlight(s) + Handled(S \ {s})

\* C5: process_telemetry returns normally for every topic and payload and for
\* every failure of the cache, the relational store, the time-series store or
\* the enqueue, and the subscriber loop then takes the next message: no call
\* ends with an exception, and every message handed to process_telemetry is
\* either still being processed or has produced one logged return.
C5_NeverRaises ==
    /\ \A s \in Subscribers : sub[s].pc # "raised"
    /\ Handled(Subscribers) = received

\* A subscriber whose earlier message met a failing store is about to enqueue
\* the rule evaluation of a later message.
C5_Witness ==
    \E s \in Subscribers :
        /\ sub[s].log["unhandled_error"] >= 1
        /\ sub[s].pc = "dispatch"
        /\ faults > 0

\* C6: a repository read or update issued with tenant id T and the id of a
\* device or parameter row owned by another tenant returns not-found and leaves
\* the tables unchanged; listing devices (or a device's parameters) for T
\* returns only rows whose factory_id is T.
C6_TenantIsolation ==
    [][LET call == repo_call'
           T == call.factory_id
       IN  /\ (/\ call.op \in {"device.get_by_id", "device.update"}
               /\ device_rows[call.id].factory_id # T)
              => /\ call.result = NoRow
                 /\ device_rows' = device_rows
                 /\ parameter_rows' = parameter_rows
           /\ (/\ call.op = "parameter.update"
               /\ parameter_rows[call.id].factory_id # T)
              => /\ call.result = NoRow
                 /\ device_rows' = device_rows
                 /\ parameter_rows' = parameter_rows
           /\ call.op = "device.get_all"
              => \A n \in 1..Len(call.result.devices) :
                     call.result.devices[n].factory_id = T
           /\ call.op = "parameter.get_all"
              => /\ \A n \in 1..Len(call.result.parameters) :
                        call.result.parameters[n].factory_id = T
                 /\ device_rows[call.id].factory_id # T
                    => call.result.parameters = <<>>
      ]_vars

\* Tenant 1 has asked to update tenant 2's device and got not-found.
C6_Witness ==
    /\ repo_call.op = "device.update"
    /\ repo_call.factory_id = 1
    /\ device_rows[repo_call.id].factory_id = 2
    /\ repo_call.result = NoRow
    /\ \E i \in 1..Len(device_rows) : device_rows[i].name # ""

\* C7: concurrent get_or_create_device calls for a (tenant id, device key)
\* without a Device row leave exactly one Device row with that pair, and the
\* callers hold that same row.
C7_OneDevicePerKey ==
    /\ \A i, j \in 1..Len(device_rows) :
           (/\ device_rows[i].factory_id = device_rows[j].factory_id
            /\ device_rows[i].device_key = device_rows[j].device_key) => i = j
    /\ \A s, t \in Subscribers :
           (/\ sub[s].device.id # 0
            /\ sub[t].device.id # 0
            /\ sub[s].device.factory_id = sub[t].device.factory_id
            /\ sub[s].device.device_key = sub[t].device.device_key)
           => sub[s].device.id = sub[t].device.id

\* C8: after any number of discover_parameters calls for a device and a
\* metrics map there is exactly one DeviceParameter row per (device id,
\* parameter key), and it keeps is_kpi_selected, display_name and unit as a
\* user set them: no second row shows the key with other values.
C8_OneParameterPerKey ==
    \A i, j \in 1..Len(parameter_rows) :
        (/\ parameter_rows[i].device_id = parameter_rows[j].device_id
         /\ parameter_rows[i].parameter_key = parameter_rows[j].parameter_key)
        => /\ i = j
           /\ parameter_rows[i].is_kpi_selected = parameter_rows[j].is_kpi_selected
           /\ parameter_rows[i].display_name = parameter_rows[j].display_name
           /\ parameter_rows[i].unit = parameter_rows[j].unit

(***************************************************************************)
(* Properties of the evaluator (checked under SpecEval).                   *)
(***************************************************************************)
IsNode(t) == "conditions" \in DOMAIN t

RECURSIVE RaisesSomewhere(_, _)
\* Evaluating some node of the tree, at any depth, raises an exception.
RaisesSomewhere(tree, metrics) ==
    \/ try_body(tree, metrics) = "X"
    \/ /\ IsNode(tree)
       /\ \E i \in 1..Len(tree.conditions) :
              /\ IsNode(tree.conditions[i])
              /\ RaisesSomewhere(tree.conditions[i], metrics)

\* C9: evaluate_conditions never raises, it returns a boolean, and when the
\* evaluation of any node anywhere in the tree raises an exception the result
\* for the whole tree is false.
C9_NeverRaisesAnyErrorIsFalse ==
    eval_result # "pending" =>
        /\ eval_result \in {"True", "False"}
        /\ RaisesSomewhere(condition_tree, eval_metrics) => eval_result = "False"

\* Integer comparison named by a leaf operator (the reference of C10).
Compare(name, a, b) ==
    \/ name = "gt" /\ a > b
    \/ name = "lt" /\ a < b
    \/ name = "gte" /\ a >= b
    \/ name = "lte" /\ a <= b
    \/ name = "eq" /\ a = b
    \/ name = "neq" /\ a # b

RECURSIVE Reference(_, _)
Reference(t, metrics) ==
    IF IsNode(t)
    THEN /\ t.conditions # <<>>
         /\ IF t.operator = "AND"
            THEN \A i \in 1..Len(t.conditions) : Reference(t.conditions[i], metrics)
            ELSE \E i \in 1..Len(t.conditions) : Reference(t.conditions[i], metrics)
    ELSE /\ t.parameter \in DOMAIN metrics
         /\ t.operator \in {"gt", "lt", "gte", "lte", "eq", "neq"}
         /\ Compare(t.operator, metrics[t.parameter].n, t.value.n)

RECURSIVE WellFormed(_)
\* A tree of AND/OR nodes and of leaves {parameter, operator, value: number}.
WellFormed(t) ==
    IF IsNode(t)
    THEN /\ DOMAIN t = {"operator", "conditions"}
         /\ t.operator \in {"AND", "OR"}
         /\ \A i \in 1..Len(t.conditions) : WellFormed(t.conditions[i])
    ELSE /\ DOMAIN t = {"parameter", "operator", "value"}
         /\ t.value.t = "num"

NumericMetrics(metrics) == \A k \in DOMAIN metrics : metrics[k].t = "num"

\* C10: on every tree of AND/OR nodes and leaves, nested to any depth, and
\* every numeric metrics map, evaluate_conditions equals the reference: AND is
\* all children, OR is any child, an empty conditions list is false, a leaf is
\* true iff its parameter is present, its operator is one of the six and the
\* comparison of the metric value with the threshold holds.
C10_EqualsReference ==
    (/\ eval_result # "pending"
     /\ WellFormed(condition_tree)
     /\ NumericMetrics(eval_metrics))
    => (eval_result = "True") = Reference(condition_tree, eval_metrics)

\* The nested scenario: AND over a leaf and an OR node, evaluated to true.
C10_Witness ==
    /\ eval_result = "True"
    /\ WellFormed(condition_tree)
    /\ NumericMetrics(eval_metrics)
    /\ condition_tree.operator = "AND"
    /\ Len(condition_tree.conditions) = 2
    /\ ~IsNode(condition_tree.conditions[1])
    /\ IsNode(condition_tree.conditions[2])
    /\ condition_tree.conditions[2].operator = "OR"

\* C11: an internal node whose operator is not exactly "AND" or "OR" evaluates
\* to false whatever its children evaluate to.
C11_UnknownNodeOperatorIsFalse ==
    (/\ eval_result # "pending"
     /\ "conditions" \in DOMAIN condition_tree
     /\ "operator" \in DOMAIN condition_tree
     /\ condition_tree.operator \notin {"AND", "OR"})
    => eval_result = "False"

\* The leaf under a one-child AND node decides the node: the node is true
\* iff the leaf is.
SingleLeaf ==
    /\ DOMAIN condition_tree = {"operator", "conditions"}
    /\ condition_tree.operator = "AND"
    /\ Len(condition_tree.conditions) = 1
    /\ DOMAIN condition_tree.conditions[1] = {"parameter", "operator", "value"}

\* C12: when the metric value or the threshold of a leaf is NaN, the leaf
\* evaluates to false for each of the six operators, neq included.
C12_NaNLeafIsFalse ==
    (/\ eval_result # "pending"
     /\ SingleLeaf
     /\ condition_tree.conditions[1].operator \in OPERATORS
     /\ condition_tree.conditions[1].parameter \in DOMAIN eval_metrics
     /\ \/ eval_metrics[condition_tree.conditions[1].parameter].t = "nan"
        \/ condition_tree.conditions[1].value.t = "nan")
    => eval_result = "False"

\* What the claim calls a well-formed topic.
TopicGrammar(parts) ==
    /\ Len(parts) = 5
    /\ parts[1] = "factories"
    /\ parts[3] = "devices"
    /\ parts[5] = "telemetry"
    /\ parts[2] # ""
    /\ parts[4] # ""

\* C13: parse_topic accepts a topic exactly when it has five segments, the
\* first, third and fifth are factories, devices and telemetry and the second
\* and fourth are non-empty, and then returns (second, fourth); every other
\* topic is rejected with an error.
C13_ParseTopicGrammar ==
    (pure_call.fn = "parse_topic" /\ pure_result # NoResult)
    => IF TopicGrammar(pure_call.parts)
       THEN pure_result = [status |-> "returned",
                           value |-> [factory_slug |-> pure_call.parts[2],
                                      device_key |-> pure_call.parts[4]]]
       ELSE pure_result = [status |-> "raised"]

\* The slug of a message has no row in table factories.
UnknownSlug(slug) == \A f \in FactoryTable : f.slug # slug

\* Subscriber s takes a step of a message that is dropped: the message is
\* returned from at once (invalid topic, invalid JSON, empty or non-numeric
\* metrics), or its tenant slug is unknown.
DropStep(s) ==
    /\ sub'[s] # sub[s]
    /\ \/ /\ sub[s].pc = "idle"
          /\ \/ sub'[s].log["invalid_topic"] > sub[s].log["invalid_topic"]
             \/ sub'[s].log["invalid_payload"] > sub[s].log["invalid_payload"]
             \/ sub'[s].pc # "idle" /\ UnknownSlug(sub'[s].topic.factory_slug)
       \/ /\ sub[s].pc \in {"factory_cache", "factory_select"}
          /\ UnknownSlug(sub[s].topic.factory_slug)

ValidMetrics(payload) ==
    /\ IsObject(payload)
    /\ "metrics" \in DOMAIN payload
    /\ IsObject(payload["metrics"])
    /\ DOMAIN payload["metrics"] # {}
    /\ \A k \in DOMAIN payload["metrics"] : payload["metrics"][k].t = "num"

\* The timestamp member is absent, null or a string that is no ISO-8601 instant.
NoUsableTimestamp(payload) ==
    \/ "timestamp" \notin DOMAIN payload
    \/ payload["timestamp"].t \in {"null", "str"}

\* C15: a payload with a valid metrics map whose timestamp is absent or cannot
\* be parsed is accepted, with the server's current UTC time as its timestamp.
C15_BadTimestampFallsBack ==
    (/\ pure_call.fn = "model_validate_json"
     /\ pure_result # NoResult
     /\ ValidMetrics(pure_call.payload)
     /\ NoUsableTimestamp(pure_call.payload))
    => /\ pure_result.status = "returned"
       /\ pure_result.value.timestamp = pure_call.utcnow

\* The metrics of a task are those of payloads without a usable timestamp
\* only: the task's timestamp is the fallback of process_telemetry.
NoTimestampTask(task) ==
    \A p \in Payloads :
        (~TelemetryPayload_raises(p) /\ p["metrics"] = task.metrics)
        => NoUsableTimestamp(p)

\* C16: for a payload without a timestamp, the triggered_at of an Alert
\* produced from it is the UTC time at which the rule-evaluation task runs,
\* not the time at which the message was ingested.
C16_TriggeredAtIsTaskRunTime ==
    [][(/\ Len(alerts') = Len(alerts) + 1
        /\ NoTimestampTask(worker[1].task))
       => alerts'[Len(alerts')].triggered_at = clock]_vars

\* The steps of process_telemetry after the tenant and the device were
\* resolved and before the enqueue: parameter discovery, the time-series
\* write and the last-seen update.
AfterResolution == {"discover", "discover_commit", "write", "last_seen"}

\* C17: if parameter discovery, the time-series write or the last-seen update
\* fails for a message whose tenant and device were resolved, the failure is
\* logged and the remaining steps still run, up to the enqueue of the task.
C17_LateFailureStillEnqueues ==
    [][\A s \in Subscribers :
          (sub[s].pc \in AfterResolution /\ faults' = faults + 1)
          => /\ sub'[s].pc \in AfterResolution \cup {"dispatch"}
             /\ sub'[s].log["unhandled_error"] = sub[s].log["unhandled_error"]]_vars

\* The steps of process_telemetry that only talk to the cache: redis.get in
\* get_factory_by_slug and in get_or_create_device, redis.setex of the device.
CacheSteps == {"factory_cache", "device_cache", "device_setex"}

\* C18: when the cache is unavailable, a valid message for an existing tenant
\* is still processed from the relational store: a failing cache read or write
\* does not end the message, which goes on to the upsert, the write, the
\* last-seen update and the enqueue.
C18_CacheFailureFallsThrough ==
    [][\A s \in Subscribers :
          (sub[s].pc \in CacheSteps /\ faults' = faults + 1)
          => /\ sub'[s].pc # "idle"
             /\ sub'[s].log["unhandled_error"] = sub[s].log["unhandled_error"]]_vars

\* The member of a schedule config under key k is present and well-formed.
Configured(rule, k) ==
    /\ IsObject(rule.schedule_config)
    /\ k \in DOMAIN rule.schedule_config
    /\ rule.schedule_config[k].t = "num"

\* The days of a time_window config: absent (every day) or a list.
DaysConfigured(rule) ==
    /\ IsObject(rule.schedule_config)
    /\ "days" \in DOMAIN rule.schedule_config => rule.schedule_config["days"].t = "list"

\* The schedule config of a rule is missing or cannot be parsed.
Unparseable(rule) ==
    \/ /\ rule.schedule_type = "time_window"
       /\ ~(Configured(rule, "start_time") /\ Configured(rule, "end_time")
            /\ DaysConfigured(rule))
    \/ /\ rule.schedule_type = "date_range"
       /\ ~(Configured(rule, "start_date") /\ Configured(rule, "end_date"))

\* The schedule gate as the claim words it, at timestamp ts.
GatePasses(rule, ts) ==
    \/ rule.schedule_type = "always"
    \/ Unparseable(rule)
    \/ /\ rule.schedule_type = "time_window"
       /\ ~Unparseable(rule)
       /\ \/ "days" \notin DOMAIN rule.schedule_config
          \/ ((ts \div DayLength) % 7) + 1 \in rule.schedule_config["days"].items
       /\ rule.schedule_config["start_time"].n <= ts % DayLength
       /\ ts % DayLength <= rule.schedule_config["end_time"].n
    \/ /\ rule.schedule_type = "date_range"
       /\ ~Unparseable(rule)
       /\ rule.schedule_config["start_date"].n <= ts \div DayLength
       /\ ts \div DayLength <= rule.schedule_config["end_date"].n

\* The condition tree of a rule is true on the metrics of a task.
TreeTrue(rule, metrics) == evaluate_conditions(rule.conditions, metrics)

\* The worker evaluates the gates of its current rule in this step.
GateStep ==
    /\ worker[1].pc = "gate"
    /\ worker'[1] # worker[1]
    /\ faults' = faults

FiredBefore(w, rule_id) ==
    {i \in AlertIds :
        /\ alerts[i].rule_id = rule_id
        /\ alerts[i].device_id = worker[w].task.device_id
        /\ i \notin FiredBy(w, rule_id)}

NotifiedAlert == alerts[notifier.task.alert_id]

\* The run of send_notifications for an existing alert is over: it returned
\* or it failed for the last time.
NotificationOver ==
    /\ notifier.pc = "idle"
    /\ notifier.taken > 0
    /\ notifier.task.alert_id \in DOMAIN alerts

\* A channel the message enables and for which the user has a contact value.
Enabled(channels, user, channel) ==
    /\ IsObject(channels)
    /\ channels_get(channels, channel)
    /\ IF channel = "email" THEN user.email ELSE user.whatsapp_number

\* C21: for an existing Alert, send_notifications attempts delivery for every
\* pair of an active user of the Alert's tenant and an enabled channel for
\* which that user has a contact value, and for no other user; a failed
\* attempt prevents no other attempt; and after the attempts the Alert's
\* notification_sent is true whether or not any send succeeded.
C21_EveryPairAttemptedThenMarked ==
    NotificationOver =>
        /\ \A u \in UserTable, c \in {"email", "whatsapp"} :
               (/\ u.factory_id = NotifiedAlert.factory_id
                /\ u.is_active
                /\ Enabled(notifier.task.channels, u, c))
               => \E a \in attempts : a.user = u.id /\ a.channel = c
        /\ \A a \in attempts :
               /\ UserRow(a.user).factory_id = alerts[a.alert_id].factory_id
               /\ UserRow(a.user).is_active
        /\ NotifiedAlert.notification_sent

\* The fields of an alert row that nothing may change.
FrozenFields == {"id", "factory_id", "rule_id", "device_id", "triggered_at",
                 "severity", "telemetry_snapshot"}

\* C22: after an Alert is created none of its fields change, except that
\* resolved_at goes from unset to set once and never changes afterwards (a
\* later resolve keeps the first value) and notification_sent goes from false
\* to true and never back.
C22_AlertChangesOnlyOnce ==
    [][\A k \in DOMAIN alerts :
          /\ k \in DOMAIN alerts'
          /\ \A f \in FrozenFields : alerts'[k][f] = alerts[k][f]
          /\ alerts[k].resolved_at # JNull
                 => alerts'[k].resolved_at = alerts[k].resolved_at
          /\ alerts[k].notification_sent => alerts'[k].notification_sent]_vars

\* The status changes the claim allows.
StatusMoves == {<<"pending", "running">>, <<"running", "complete">>,
                <<"running", "failed">>}

\* C23: the status of an analytics job or of a report only moves
\* pending -> running -> complete or failed; once it is complete or failed
\* it never changes again, also when the task is retried or redelivered.
C23_StatusOnlyMovesForward ==
    [][\A k \in DOMAIN job_rows :
          job_rows'[k].status # job_rows[k].status
              => <<job_rows[k].status, job_rows'[k].status>> \in StatusMoves]_vars

\* The task of a job is over and every run of it ended with an exception.
RaisedEveryTime(k) ==
    /\ job_worker[k].pc = "dead"
    /\ job_worker[k].runs > 0
    /\ job_worker[k].raised = job_worker[k].runs

\* C24: a task whose handler raises on every attempt is run at most 1 + N
\* times (N = 1 for the analytics and report tasks); after that it is not run
\* again and the job record ends with status failed and an error message.
C24_RaisingJobEndsFailed ==
    \A k \in DOMAIN job_rows :
        RaisedEveryTime(k) =>
            /\ job_worker[k].runs <= 1 + job_max_retries
            /\ job_rows[k].status = "failed"
            /\ job_rows[k].error_message

\* The evaluate_rules messages that are not finished: on the queue, or held
\* by a worker that has not acknowledged them.
Unfinished ==
    {queue[k] : k \in DOMAIN queue}
        \cup {worker[w].task : w \in {v \in Workers : worker[v].pc # "idle"}}

SamePair(a, b) == a.factory_id = b.factory_id /\ a.device_id = b.device_id

\* C25: evaluate_rules tasks for the same (tenant, device) are processed in
\* the order they were enqueued: a task enqueued later is never running while
\* an earlier one for the same pair is unfinished, also when the earlier one
\* fails and is retried and when several workers consume the queue.
C25_PerDeviceOrder ==
    \A w \in Workers :
        worker[w].pc # "idle"
            => ~\E t \in Unfinished :
                   SamePair(t, worker[w].task) /\ t.id < worker[w].task.id

\* The alerts the invocation that worker w is running has inserted.
CreatedBy(w) ==
    {k \in DOMAIN alerts :
        /\ alert_origin[k].task = worker[w].task.id
        /\ alert_origin[k].delivery = worker[w].task.deliveries}

\* The send_notifications messages published for an alert.
NotificationsFor(alert_id) ==
    {j \in DOMAIN notify_queue : notify_queue[j].alert_id = alert_id}

\* C26: each Alert that evaluate_rules creates for rule R and device D from a
\* task with timestamp ts has the task's tenant id, rule id R, device id D,
\* triggered_at = ts, severity = R's severity, snapshot = the task's metrics
\* and notification_sent = false; and by the end of that invocation the
\* Cooldown row (R, D) has last_triggered = ts and exactly one notification
\* task carrying that Alert's id and R's channels has been enqueued.
C26_AlertCooldownNotification ==
    \A w \in Workers :
        worker[w].pc = "done" =>
            \A k \in CreatedBy(w) :
                LET alert == alerts[k]
                    task == worker[w].task
                    rule == RuleRow(alert.rule_id)
                IN  /\ alert.factory_id = task.factory_id
                    /\ alert.device_id = task.device_id
                    /\ alert.triggered_at = task.timestamp
                    /\ alert.severity = rule.severity
                    /\ alert.telemetry_snapshot = task.metrics
                    /\ ~alert.notification_sent
                    /\ \E c \in cooldowns :
                           /\ c.rule_id = rule.id
                           /\ c.device_id = task.device_id
                           /\ c.last_triggered = task.timestamp
                    /\ Cardinality(NotificationsFor(alert.id)) = 1
                    /\ \A j \in NotificationsFor(alert.id) :
                           notify_queue[j].channels = rule.notification_channels

\* The rule applies to the device of the tenant: the WHERE clause of the load.
Applies(rule, factory_id, device_id) ==
    /\ rule.is_active
    /\ rule.factory_id = factory_id
    /\ (rule.scope = "global" \/ device_id \in rule.devices)

\* C27: every Alert created by evaluate_rules for tenant T and device D
\* references a rule that, when loaded, was active, belonged to T and was
\* either global or linked to D; no Alert is created for an inactive rule, a
\* rule of another tenant, or a device-scoped rule not linked to D.
C27_AlertsOnlyForApplicableRules ==
    \A k \in DOMAIN alerts :
        /\ \E r \in rule_rows : r.id = alerts[k].rule_id
        /\ Applies(RuleRow(alerts[k].rule_id), alerts[k].factory_id, alerts[k].device_id)

\* An invocation created an Alert and returned, over a table that also holds
\* an inactive rule, a rule of another tenant and a rule linked to another
\* device only.
C27_Witness ==
    /\ worker[1].pc = "done"
    /\ CreatedBy(1) # {}
    /\ \E r \in rule_rows : ~r.is_active
    /\ \E r \in rule_rows : r.factory_id # worker[1].task.factory_id
    /\ \E r \in rule_rows :
           /\ r.is_active /\ r.factory_id = worker[1].task.factory_id
           /\ r.scope = "device" /\ worker[1].task.device_id \notin r.devices

\* process_telemetry ends for a message whose tenant was resolved.
ResolvedMessageEnds(s) ==
    /\ sub[s].pc # "idle"
    /\ sub[s].factory # 0
    /\ sub'[s].pc = "idle"

\* C28: for every message that passes validation and tenant resolution,
\* process_telemetry enqueues exactly one evaluate_rules task carrying that
\* message's tenant id, device id, metrics and timestamp, as its last step
\* (after the Device commit, the parameter upsert, the time-series write and
\* the last-seen update), before the next message is started.
C28_OneTaskPerResolvedMessage ==
    [][/\ \A s \in Subscribers :
             ResolvedMessageEnds(s) =>
                 /\ sub[s].pc = "dispatch"
                 /\ Len(queue') = Len(queue) + 1
                 /\ queue'[Len(queue')].factory_id = sub[s].factory
                 /\ queue'[Len(queue')].device_id = sub[s].device.id
                 /\ queue'[Len(queue')].metrics = SubData(s).metrics
                 /\ queue'[Len(queue')].timestamp = sub[s].timestamp
       /\ queue' # queue => \E s \in Subscribers : ResolvedMessageEnds(s)]_vars

\* The queue the specification names for each task.
NamedQueue(name) ==
    CASE name = "evaluate_rules" -> "rule_engine"
      [] name = "send_notifications" -> "notifications"
      [] name = "run_analytics_job" -> "analytics"
      [] name = "generate_report" -> "reporting"

\* C29: each task is placed on its named queue when it is enqueued:
\* evaluate_rules on rule_engine, send_notifications on notifications,
\* run_analytics_job on analytics and generate_report on reporting.
C29_TasksOnNamedQueues ==
    (pure_call.fn = "delay" /\ pure_result # NoResult)
        => pure_result.value.queue = NamedQueue(pure_call.task)

\* C30: every Alert row produced through the ingest then rule-evaluation
\* path has a factory_id equal to the factory_id of the Rule it references
\* and to the factory_id of the Device it references, after any sequence of
\* messages for any tenants and device keys, also when two tenants use the
\* same device key.
C30_AlertTenantMatchesRuleAndDevice ==
    \A k \in DOMAIN alerts :
        /\ RuleRow(alerts[k].rule_id).factory_id = alerts[k].factory_id
        /\ alerts[k].device_id \in DOMAIN device_rows
        /\ device_rows[alerts[k].device_id].factory_id = alerts[k].factory_id

\* Alerts of two tenants exist whose devices have the same device key.
C30_Witness ==
    \E i, j \in DOMAIN alerts :
        /\ alerts[i].factory_id # alerts[j].factory_id
        /\ device_rows[alerts[i].device_id].device_key
               = device_rows[alerts[j].device_id].device_key

====
